---- MODULE Spec2Model ----
(***************************************************************************)
(* Model of the health monitor in src/cloud.py:                            *)
(*   - ConcurrencyEstimator.estimate_concurrent_users: the stepped load    *)
(*     search, with its worker threads, lock, join and gate;               *)
(*   - FrontendMetrics.measure_throughput: the throughput probe workers;   *)
(*   - SlowLogAnalyzer.analyze_slow_logs: the fold of slow-log entries     *)
(*     into per-script statistics and the emitted averages.                *)
(*                                                                         *)
(* Units.  Wall-clock time (now, start_time, test_duration) is in seconds. *)
(* Response-time samples are in milliseconds.  Values the code rounds to   *)
(* two decimals (success_rate, avg_response_ms) are kept in hundredths.    *)
(* Slow-log durations are in milliseconds (the code holds seconds as       *)
(* floats; round(x, 3) is therefore rounding to a whole millisecond).      *)
(***************************************************************************)
EXTENDS Integers, Sequences, FiniteSets, TLC

VARIABLES
    op,                \* which method is running
    granularity,       \* "thread": workers run step by step; "level": a level runs as one step
    pcMain,            \* position of the calling thread
    pc,                \* position of each worker thread
    resp,              \* per worker: outcome of its pending requests.get
    req_time,          \* per worker: measured req_time of its pending response
    tmp,               \* per worker: counter value loaded by its pending +=
    lock,              \* 0 when free, else the worker holding it
    now,               \* time.time()
    start_time,        \* start_time of the current level / of the throughput test
    search_start,      \* time.time() when estimate_concurrent_users was entered
    test_duration,     \* argument of estimate_concurrent_users
    levelIdx,          \* index of concurrent_level in the ladder
    spawned,           \* number of threads started so far in the current level
    success_count, error_count, response_times,
    request_count, errors,
    attempts,          \* completed requests.get calls since the counters were reset
    ok_attempts,       \* those of them that returned status 200
    max_concurrent, successful_levels,
    tested,            \* the levels whose workers were started, in order
    outcomes,          \* per gated level: did its statistics meet both thresholds
    broke,             \* why the ladder loop was left: "none", "gate", "budget", "exhausted"
    slow_requests,     \* the dict of per-script statistics, in insertion order
    plugin_entry_counts, cutoff_date,
    current_entry,     \* the entry last handed to record_entry
    folded,            \* <<script, duration>> of the entries that qualify for recording
    slow_scripts,      \* the emitted per-script records, ranked
    top_n, top_slow_scripts,
    success_rate,      \* local of estimate_concurrent_users, None until first assigned
    avg_response_time, \* local of estimate_concurrent_users, None until first assigned
    calls,             \* number of calls made of the function or closure under study
    returned,          \* what the last call returned
    value, unit,       \* arguments of _normalize_time_seconds / _normalize_memory_mb
    values, percentile, \* arguments of _percentile
    path,              \* argument of categorize_path
    source_counts, plugin_trace_hits, theme_counts,
    line,              \* argument of _extract_access_metrics
    parsed_entries,    \* lines the caller of _extract_access_metrics kept
    script_stats,      \* per-script access-log statistics, in insertion order
    script_index,      \* key variant -> summary of an access-log script
    wp_outcome,        \* how subprocess.run ended inside run_wp_command
    file_idx,          \* index of log_file in the list of log files, 0 before the loop
    handle,            \* the local f: None, or the index of the file it was last bound to
    open_files,        \* indices of the files whose handle is open
    lines_read,        \* <<file, line>> of every line the pass has read
    recorded,          \* <<file, entry>> of every call of record_entry
    warnings,          \* files for which "Error reading ..." was printed
    raised,            \* files whose processing raised an exception
    function_counts, plugin_function_counts,
    request_times, memory_usage, cpu_times, high_memory_scripts

capVars == <<pcMain, pc, resp, req_time, tmp, lock, now, start_time, search_start,
             test_duration, levelIdx, spawned, success_count, error_count,
             response_times, attempts, ok_attempts, max_concurrent, successful_levels,
             tested, outcomes, broke>>
tpVars == <<request_count, errors>>
slowVars == <<slow_requests, plugin_entry_counts, cutoff_date, current_entry, folded,
              slow_scripts, top_n, top_slow_scripts>>
gateVars == <<success_rate, avg_response_time>>
normVars == <<value, unit>>
pctVars == <<values, percentile>>
catVars == <<path, source_counts, plugin_trace_hits, theme_counts>>
exVars == <<line, parsed_entries>>
corrVars == <<script_stats, script_index>>
wpVars == <<wp_outcome>>
passVars == <<file_idx, handle, open_files, lines_read, recorded, warnings, raised,
              function_counts, plugin_function_counts>>
resVars == <<request_times, memory_usage, cpu_times, high_memory_scripts>>
extVars == <<wpVars, passVars, resVars>>
libVars == <<calls, returned, normVars, pctVars, catVars, exVars, corrVars, extVars>>
vars == <<op, granularity, capVars, tpVars, slowVars, gateVars, libVars>>

----------------------------------------------------------------------------
(* Bounds of the model *)

MaxThreads == 2          \* threads started per level: min(concurrent_level, MaxThreads)
MaxAttempts == 2         \* requests completed per level / per throughput test
MaxLevelSecs == 10       \* the clock stops advancing once a level has run longer than this
MaxFolded == 3           \* entries handed to record_entry
MaxSamples == 5          \* length of the list handed to _percentile
MaxFragments == 3        \* path fragments joined into the argument of categorize_path
MaxTokens == 2           \* tokens of a log line outside its quoted fields
MaxSlowScripts == 2      \* scripts of the slow log handed to the correlation
MaxAccessScripts == 2    \* scripts of the access log handed to the correlation
MaxText == 3             \* characters the CLI writes to stdout
MaxLines == 3            \* lines read in one pass over the log files
MaxTimed == 3            \* entries record_entry admits in the floating-point fold

(* Program constants *)

Ladder == <<5, 10, 20, 30, 50, 75, 100>>
test_duration_per_level == 10
GateSuccessRate == 95
GateAvgMs == 5000
ThroughputDuration == 10
ThroughputConcurrent == 5

(* Input sets *)

TickSteps == {5}                 \* the clock advances in steps of this many seconds
TestDurations == {10, 30}        \* values of the test_duration argument
Statuses == {"200", "500", "exc"}   \* status 200, another status, an exception/timeout
RespMs == {300}                  \* req_time samples of the step-by-step workers

Threads == 1..MaxThreads

\* An optional value is <<>> (None) or <<v>>.
None == <<>>
Some(v) == <<v>>

Abs(x) == IF x < 0 THEN 0 - x ELSE x
Min(a, b) == IF a < b THEN a ELSE b
Max(a, b) == IF a > b THEN a ELSE b

RECURSIVE SumSeq(_)
SumSeq(s) == IF s = <<>> THEN 0 ELSE Head(s) + SumSeq(Tail(s))

(* round(num/den, k) where the result is counted in units of 10^-k and     *)
(* num/den is already expressed in those units.  Python rounds the binary  *)
(* double; on a decimal tie the direction depends on the representation   *)
(* error of that double, so both neighbours are admissible.               *)
RoundCands(num, den) ==
    LET q == num \div den
        r == num % den
    IN  IF 2 * r < den THEN {q}
        ELSE IF 2 * r > den THEN {q + 1}
        ELSE {q, q + 1}

----------------------------------------------------------------------------
(* estimate_concurrent_users: the calling thread *)

concurrent_level == Ladder[levelIdx]
NumThreads(level) == Min(level, MaxThreads)

total_requests == success_count + error_count

\* the comparison of the gate taken as "at least 95"
SuccessRateAtLeast(s, e) == (s + e > 0) /\ (s * 100 >= GateSuccessRate * (s + e))

\* success_rate > 95, with success_rate = success_count / total_requests * 100, else 0
SuccessRateAbove(s, e) == (s + e > 0) /\ (s * 100 > GateSuccessRate * (s + e))

\* avg_response_time < 5000, with avg = mean(response_times), else 0
AvgBelow(rts) == IF rts = <<>> THEN 0 < GateAvgMs ELSE SumSeq(rts) < GateAvgMs * Len(rts)

\* line 1928: success_rate as the fraction <<numerator, denominator>>, 0 without requests
SuccessRate(s, e) == IF s + e > 0 THEN <<s * 100, s + e>> ELSE <<0, 1>>

\* line 1929: avg_response_time in ms as a fraction, 0 without samples
AvgResponseTime(rts) == IF rts # <<>> THEN <<SumSeq(rts), Len(rts)>> ELSE <<0, 1>>

GatePasses(s, e, rts) == SuccessRateAbove(s, e) /\ AvgBelow(rts)

\* the rate stored as a fraction instead of a percentage
SuccessRateAsFraction(s, e) == IF s + e > 0 THEN RoundCands(s * 100, s + e) ELSE {0}

\* round(success_rate, 2), in hundredths of a percent
SuccessRateCands(s, e) == IF s + e > 0 THEN RoundCands(s * 100 * 100, s + e) ELSE {0}

\* round(avg_response_time, 2), in hundredths of a millisecond
AvgCands(rts) == IF rts = <<>> THEN {0} ELSE RoundCands(SumSeq(rts) * 100, Len(rts))

\* The thresholds as stated: more than 95 successes in every 100 completed requests
\* and a mean sample below 5000 ms (no completed request counts as a rate of 0)
MeetsThresholds ==
    /\ success_count + error_count > 0
    /\ 100 * success_count > 95 * (success_count + error_count)
    /\ \A n \in {Len(response_times)} : n > 0 => SumSeq(response_times) < 5000 * n

\* lines 1892-1897: the per-level locals are (re)bound
LevelStart ==
    /\ op = "estimate_concurrent_users"
    /\ pcMain = "level_start"
    /\ success_count' = 0
    /\ error_count' = 0
    /\ response_times' = <<>>
    /\ lock' = 0
    /\ start_time' = now
    /\ attempts' = 0
    /\ ok_attempts' = 0
    /\ spawned' = 0
    /\ pc' = [w \in Threads |-> "idle"]
    \* lines 1928-1929 assign both before line 1931 reads them: the last level's values are dead
    /\ success_rate' = None
    /\ avg_response_time' = None
    /\ pcMain' = IF granularity = "thread" THEN "spawn" ELSE "run_level"
    /\ UNCHANGED <<op, granularity, libVars, resp, req_time, tmp, now, search_start, test_duration,
                   levelIdx, max_concurrent, successful_levels, tested, outcomes, broke,
                   tpVars, slowVars>>

\* lines 1918-1922: one iteration of the loop that starts the threads
Spawn ==
    /\ op = "estimate_concurrent_users"
    /\ pcMain = "spawn"
    /\ IF spawned < NumThreads(concurrent_level)
       THEN /\ spawned' = spawned + 1
            /\ pc' = [pc EXCEPT ![spawned + 1] = "loop"]
            /\ tested' = IF spawned = 0 THEN Append(tested, concurrent_level) ELSE tested
            /\ pcMain' = pcMain
       ELSE /\ pcMain' = "join"
            /\ UNCHANGED <<spawned, pc, tested>>
    /\ UNCHANGED <<op, granularity, libVars, gateVars, resp, req_time, tmp, lock, now, start_time, search_start,
                   test_duration, levelIdx, success_count, error_count, response_times,
                   attempts, ok_attempts, max_concurrent, successful_levels, outcomes,
                   broke, tpVars, slowVars>>

\* only the first started thread is waited for
FirstJoined == pc[1] \in {"idle", "exit"}

AllJoined == \A w \in Threads : pc[w] \in {"idle", "exit"}

\* lines 1924-1925: t.join() for every started thread
Join ==
    /\ op = "estimate_concurrent_users"
    /\ pcMain = "join"
    /\ AllJoined
    /\ pcMain' = "gate"
    /\ UNCHANGED <<op, granularity, libVars, gateVars, pc, resp, req_time, tmp, lock, now, start_time,
                   search_start, test_duration, levelIdx, spawned, success_count,
                   error_count, response_times, attempts, ok_attempts, max_concurrent,
                   successful_levels, tested, outcomes, broke, tpVars, slowVars>>

\* the gate with its failing branch falling through to the next level
GateWithoutBreak ==
    /\ op = "estimate_concurrent_users"
    /\ pcMain = "gate"
    /\ success_rate' = Some(SuccessRate(success_count, error_count))
    /\ avg_response_time' = Some(AvgResponseTime(response_times))
    /\ outcomes' = Append(outcomes, MeetsThresholds)
    /\ IF GatePasses(success_count, error_count, response_times)
       THEN /\ max_concurrent' = concurrent_level
            /\ \E sr \in SuccessRateCands(success_count, error_count) :
               \E av \in AvgCands(response_times) :
                 successful_levels' = Append(successful_levels,
                     [concurrent_users |-> concurrent_level,
                      success_rate |-> sr,
                      avg_response_ms |-> av])
            /\ pcMain' = "budget"
            /\ broke' = broke
       ELSE /\ pcMain' = "budget"
            /\ broke' = broke
            /\ UNCHANGED <<max_concurrent, successful_levels>>
    /\ UNCHANGED <<op, granularity, libVars, pc, resp, req_time, tmp, lock, now, start_time,
                   search_start, test_duration, levelIdx, spawned, success_count,
                   error_count, response_times, attempts, ok_attempts, tested, tpVars,
                   slowVars>>

\* lines 1927-1943: statistics of the level and the gate
Gate ==
    /\ op = "estimate_concurrent_users"
    /\ pcMain = "gate"
    /\ success_rate' = Some(SuccessRate(success_count, error_count))
    /\ avg_response_time' = Some(AvgResponseTime(response_times))
    /\ outcomes' = Append(outcomes, MeetsThresholds)
    /\ IF GatePasses(success_count, error_count, response_times)
       THEN /\ max_concurrent' = concurrent_level
            /\ \E sr \in SuccessRateCands(success_count, error_count) :
               \E av \in AvgCands(response_times) :
                 successful_levels' = Append(successful_levels,
                     [concurrent_users |-> concurrent_level,
                      success_rate |-> sr,
                      avg_response_ms |-> av])
            /\ pcMain' = "budget"
            /\ broke' = broke
       ELSE /\ pcMain' = "done"
            /\ broke' = "gate"
            /\ UNCHANGED <<max_concurrent, successful_levels>>
    /\ UNCHANGED <<op, granularity, libVars, pc, resp, req_time, tmp, lock, now, start_time,
                   search_start, test_duration, levelIdx, spawned, success_count,
                   error_count, response_times, attempts, ok_attempts, tested, tpVars,
                   slowVars>>

\* lines 1945-1946 and the loop header of line 1889
Budget ==
    /\ op = "estimate_concurrent_users"
    /\ pcMain = "budget"
    /\ IF now - start_time > test_duration
       THEN /\ pcMain' = "done"
            /\ broke' = "budget"
            /\ levelIdx' = levelIdx
       ELSE IF levelIdx = Len(Ladder)
       THEN /\ pcMain' = "done"
            /\ broke' = "exhausted"
            /\ levelIdx' = levelIdx
       ELSE /\ pcMain' = "level_start"
            /\ broke' = broke
            /\ levelIdx' = levelIdx + 1
    /\ UNCHANGED <<op, granularity, libVars, gateVars, pc, resp, req_time, tmp, lock, now, start_time,
                   search_start, test_duration, spawned, success_count, error_count,
                   response_times, attempts, ok_attempts, max_concurrent, successful_levels, tested, outcomes,
                   tpVars, slowVars>>

----------------------------------------------------------------------------
(* estimate_concurrent_users: the worker threads (make_request) *)

\* requests.get calls begun since the counters were reset
Started == attempts + Cardinality({w \in Threads : pc[w] = "get"})

\* the with block entered without regard to the holder of the lock
LockIgnored == TRUE

\* `with lock:` can be entered only while no thread holds the lock
LockAvailable == lock = 0

\* every response that is not an exception taken as a success
AnyResponseIsSuccess(st) == st \in {"200", "500"}

\* line 1908: response.status_code == 200
CountsAsSuccess(st) == st = "200"

\* the while condition without the deadline: a worker stops only for lack of requests
WCheckWithoutDeadline(w) ==
    /\ op = "estimate_concurrent_users"
    /\ pc[w] = "loop"
    /\ IF Started < MaxAttempts
       THEN pc' = [pc EXCEPT ![w] = "get"]
       ELSE pc' = [pc EXCEPT ![w] = "exit"]
    /\ UNCHANGED <<op, granularity, libVars, gateVars, pcMain, resp, req_time, tmp, lock, now, start_time,
                   search_start, test_duration, levelIdx, spawned, success_count,
                   error_count, response_times, attempts, ok_attempts, max_concurrent,
                   successful_levels, tested, outcomes, broke, tpVars, slowVars>>

\* line 1901: the while condition, read before every request
WCheck(w) ==
    /\ op = "estimate_concurrent_users"
    /\ pc[w] = "loop"
    /\ IF now - start_time < test_duration_per_level
       THEN /\ Started < MaxAttempts
            /\ pc' = [pc EXCEPT ![w] = "get"]
       ELSE pc' = [pc EXCEPT ![w] = "exit"]
    /\ UNCHANGED <<op, granularity, libVars, gateVars, pcMain, resp, req_time, tmp, lock, now, start_time,
                   search_start, test_duration, levelIdx, spawned, success_count,
                   error_count, response_times, attempts, ok_attempts, max_concurrent,
                   successful_levels, tested, outcomes, broke, tpVars, slowVars>>

\* lines 1903-1905 and 1913: requests.get returns a response or raises
WResponse(w) ==
    /\ op = "estimate_concurrent_users"
    /\ pc[w] = "get"
    /\ \E st \in Statuses, ms \in RespMs :
         /\ resp' = [resp EXCEPT ![w] = st]
         /\ req_time' = [req_time EXCEPT ![w] = IF st = "exc" THEN 0 ELSE ms]
         /\ ok_attempts' = IF st = "200" THEN ok_attempts + 1 ELSE ok_attempts
    /\ attempts' = attempts + 1
    /\ pc' = [pc EXCEPT ![w] = "acquire"]
    /\ UNCHANGED <<op, granularity, libVars, gateVars, pcMain, tmp, lock, now, start_time, search_start,
                   test_duration, levelIdx, spawned, success_count, error_count,
                   response_times, max_concurrent, successful_levels, tested, outcomes, broke,
                   tpVars, slowVars>>

\* lines 1907-1909, 1912 and 1914-1915: enter `with lock:` and load the counter of
\* the branch
WAcquire(w) ==
    /\ op = "estimate_concurrent_users"
    /\ pc[w] = "acquire"
    /\ LockAvailable
    /\ lock' = w
    /\ tmp' = [tmp EXCEPT ![w] = IF CountsAsSuccess(resp[w]) THEN success_count
                                                                  ELSE error_count]
    /\ pc' = [pc EXCEPT ![w] = "store"]
    /\ UNCHANGED <<op, granularity, libVars, gateVars, pcMain, resp, req_time, now, start_time, search_start,
                   test_duration, levelIdx, spawned, success_count, error_count,
                   response_times, attempts, ok_attempts, max_concurrent, successful_levels, tested, outcomes,
                   broke, tpVars, slowVars>>

\* lines 1909, 1912 and 1915-1916: store the incremented counter; the error branches
\* then leave the with block and sleep
WStore(w) ==
    /\ op = "estimate_concurrent_users"
    /\ pc[w] = "store"
    /\ IF CountsAsSuccess(resp[w])
       THEN /\ success_count' = tmp[w] + 1
            /\ pc' = [pc EXCEPT ![w] = "append"]
            /\ UNCHANGED <<error_count, lock, resp>>
       ELSE /\ error_count' = tmp[w] + 1
            /\ lock' = IF lock = w THEN 0 ELSE lock
            /\ pc' = [pc EXCEPT ![w] = "loop"]
            /\ resp' = [resp EXCEPT ![w] = "none"]
            /\ UNCHANGED success_count
    /\ tmp' = [tmp EXCEPT ![w] = 0]
    /\ UNCHANGED <<op, granularity, libVars, gateVars, pcMain, req_time, now, start_time, search_start,
                   test_duration, levelIdx, spawned, response_times, attempts, ok_attempts,
                   max_concurrent, successful_levels, tested, outcomes, broke, tpVars, slowVars>>

\* lines 1910 and 1916: append the sample, leave the with block, sleep
WAppend(w) ==
    /\ op = "estimate_concurrent_users"
    /\ pc[w] = "append"
    /\ response_times' = Append(response_times, req_time[w])
    /\ lock' = IF lock = w THEN 0 ELSE lock
    /\ pc' = [pc EXCEPT ![w] = "loop"]
    /\ resp' = [resp EXCEPT ![w] = "none"]
    /\ req_time' = [req_time EXCEPT ![w] = 0]
    /\ UNCHANGED <<op, granularity, libVars, gateVars, pcMain, tmp, now, start_time, search_start,
                   test_duration, levelIdx, spawned, success_count, error_count, attempts, ok_attempts,
                   max_concurrent, successful_levels, tested, outcomes, broke, tpVars, slowVars>>

\* time.time() advances
Tick ==
    /\ op \in {"estimate_concurrent_users", "measure_throughput"}
    /\ granularity = "thread"
    /\ pcMain # "done"
    /\ now - start_time <= MaxLevelSecs
    /\ \E d \in TickSteps : now' = now + d
    /\ UNCHANGED <<op, granularity, libVars, gateVars, pcMain, pc, resp, req_time, tmp, lock, start_time,
                   search_start, test_duration, levelIdx, spawned, success_count,
                   error_count, response_times, attempts, ok_attempts, max_concurrent,
                   successful_levels, tested, outcomes, broke, tpVars, slowVars>>

----------------------------------------------------------------------------
(* estimate_concurrent_users with a level run as one step *)

LevelSecs == {10, 15, 35}        \* wall-clock seconds a level takes until its join returns
SuccCounts == {0, 19, 20}        \* success_count after the join
ErrCounts == {0, 1}              \* error_count after the join
LevelRespMs == {300, 5000}       \* req_time of the level's samples

\* lines 1899-1925: the workers of the level run to completion and are joined
RunLevel ==
    /\ op = "estimate_concurrent_users"
    /\ pcMain = "run_level"
    /\ \E s \in SuccCounts, e \in ErrCounts, ms \in LevelRespMs, d \in LevelSecs :
         /\ success_count' = s
         /\ error_count' = e
         /\ response_times' = [i \in 1..s |-> ms]
         /\ attempts' = s + e
         /\ ok_attempts' = s
         /\ now' = now + d
    /\ tested' = Append(tested, concurrent_level)
    /\ pcMain' = "gate"
    /\ UNCHANGED <<op, granularity, libVars, gateVars, pc, resp, req_time, tmp, lock, start_time,
                   search_start, test_duration, levelIdx, spawned, max_concurrent,
                   successful_levels, outcomes, broke, tpVars, slowVars>>

----------------------------------------------------------------------------
(* measure_throughput: the calling thread and its workers *)

\* lines 191-194: the locals of the test are bound
TpStart ==
    /\ op = "measure_throughput"
    /\ pcMain = "tp_start"
    /\ request_count' = 0
    /\ errors' = 0
    /\ lock' = 0
    /\ start_time' = now
    /\ pcMain' = "tp_spawn"
    /\ UNCHANGED <<op, granularity, libVars, gateVars, pc, resp, req_time, tmp, now, search_start,
                   test_duration, levelIdx, spawned, success_count, error_count,
                   response_times, attempts, ok_attempts, max_concurrent, successful_levels, tested, outcomes,
                   broke, slowVars>>

\* lines 211-215: one iteration of the loop that starts the threads
TpSpawn ==
    /\ op = "measure_throughput"
    /\ pcMain = "tp_spawn"
    /\ IF spawned < NumThreads(ThroughputConcurrent)
       THEN /\ spawned' = spawned + 1
            /\ pc' = [pc EXCEPT ![spawned + 1] = "loop"]
            /\ pcMain' = pcMain
       ELSE /\ pcMain' = "tp_join"
            /\ UNCHANGED <<spawned, pc>>
    /\ UNCHANGED <<op, granularity, libVars, gateVars, resp, req_time, tmp, lock, now, start_time, search_start,
                   test_duration, levelIdx, success_count, error_count, response_times,
                   attempts, ok_attempts, max_concurrent, successful_levels, tested, outcomes, broke, tpVars,
                   slowVars>>

\* line 198: the while condition, read before every request
TpCheck(w) ==
    /\ op = "measure_throughput"
    /\ pc[w] = "loop"
    /\ IF now - start_time < ThroughputDuration
       THEN /\ Started < MaxAttempts
            /\ pc' = [pc EXCEPT ![w] = "get"]
       ELSE pc' = [pc EXCEPT ![w] = "exit"]
    /\ UNCHANGED <<op, granularity, libVars, gateVars, pcMain, resp, req_time, tmp, lock, now, start_time,
                   search_start, test_duration, levelIdx, spawned, success_count,
                   error_count, response_times, attempts, ok_attempts, max_concurrent,
                   successful_levels, tested, outcomes, broke, tpVars, slowVars>>

\* lines 200 and 206: requests.get returns a response or raises
TpResponse(w) ==
    /\ op = "measure_throughput"
    /\ pc[w] = "get"
    /\ \E st \in Statuses :
         /\ resp' = [resp EXCEPT ![w] = st]
         /\ ok_attempts' = IF st = "200" THEN ok_attempts + 1 ELSE ok_attempts
    /\ attempts' = attempts + 1
    /\ pc' = [pc EXCEPT ![w] = "acquire"]
    /\ UNCHANGED <<op, granularity, libVars, gateVars, pcMain, req_time, tmp, lock, now, start_time,
                   search_start, test_duration, levelIdx, spawned, success_count,
                   error_count, response_times, max_concurrent, successful_levels, tested, outcomes,
                   broke, tpVars, slowVars>>

\* lines 201-203, 205 and 207-208: enter `with lock:` and load the counter of the
\* branch
TpAcquire(w) ==
    /\ op = "measure_throughput"
    /\ pc[w] = "acquire"
    /\ LockAvailable
    /\ lock' = w
    /\ tmp' = [tmp EXCEPT ![w] = IF resp[w] = "200" THEN request_count ELSE errors]
    /\ pc' = [pc EXCEPT ![w] = "store"]
    /\ UNCHANGED <<op, granularity, libVars, gateVars, pcMain, resp, req_time, now, start_time, search_start,
                   test_duration, levelIdx, spawned, success_count, error_count,
                   response_times, attempts, ok_attempts, max_concurrent, successful_levels, tested, outcomes,
                   broke, tpVars, slowVars>>

\* lines 203, 205, 208 and 209: store the incremented counter, leave the with block, sleep
TpStore(w) ==
    /\ op = "measure_throughput"
    /\ pc[w] = "store"
    /\ IF resp[w] = "200"
       THEN request_count' = tmp[w] + 1 /\ UNCHANGED errors
       ELSE errors' = tmp[w] + 1 /\ UNCHANGED request_count
    /\ lock' = IF lock = w THEN 0 ELSE lock
    /\ pc' = [pc EXCEPT ![w] = "loop"]
    /\ resp' = [resp EXCEPT ![w] = "none"]
    /\ tmp' = [tmp EXCEPT ![w] = 0]
    /\ UNCHANGED <<op, granularity, libVars, gateVars, pcMain, req_time, now, start_time, search_start,
                   test_duration, levelIdx, spawned, success_count, error_count,
                   response_times, attempts, ok_attempts, max_concurrent, successful_levels, tested, outcomes,
                   broke, slowVars>>

\* lines 217-218: t.join() for every started thread; the result is then computed
TpJoin ==
    /\ op = "measure_throughput"
    /\ pcMain = "tp_join"
    /\ AllJoined
    /\ pcMain' = "done"
    /\ UNCHANGED <<op, granularity, libVars, gateVars, pc, resp, req_time, tmp, lock, now, start_time,
                   search_start, test_duration, levelIdx, spawned, success_count,
                   error_count, response_times, attempts, ok_attempts, max_concurrent,
                   successful_levels, tested, outcomes, broke, tpVars, slowVars>>

----------------------------------------------------------------------------
(* analyze_slow_logs: record_entry and the emitted statistics *)

Scripts == {"cron.php", "index.php"}
Plugins == {"woocommerce"}
CutoffDate == 7                   \* datetime.now() - timedelta(days), in days
Dates == {6, 7}                   \* a header date older than the cutoff, one equal to it
Durations == {2000, 4000}         \* parsed durations, in milliseconds
TopNs == {1, 10}                  \* values of the top_n argument

\* line 899: the entry before the first header of a file
EmptyEntry == [date |-> None, script |-> None, duration |-> None, plugins |-> {}]

Entries ==
    [date : {None} \cup {Some(d) : d \in Dates},
     script : {None} \cup {Some(x) : x \in Scripts},
     duration : {None} \cup {Some(d) : d \in Durations},
     plugins : SUBSET Plugins]

\* lines 771-773: the default value of slow_requests
NewScriptData(script) ==
    [script |-> script, count |-> 0, total_time |-> 0, max_time |-> 0, timed_count |-> 0]

HasScript(sr, script) == \E i \in 1..Len(sr) : sr[i].script = script
ScriptIndex(sr, script) == CHOOSE i \in 1..Len(sr) : sr[i].script = script

\* the cutoff comparison taken as "not newer than"
EntryRecordedStrict(entry, cutoff) ==
    /\ entry.script # None
    /\ ~ (entry.date # None /\ entry.date[1] <= cutoff)

\* lines 867-872: the entry passes both early returns of record_entry
EntryRecorded(entry, cutoff) ==
    /\ entry.script # None
    /\ ~ (entry.date # None /\ entry.date[1] < cutoff)

\* max_time overwritten by the latest duration
record_entry_last_max(sr, entry) ==
    LET script == entry.script[1]
        base == IF HasScript(sr, script) THEN sr ELSE Append(sr, NewScriptData(script))
        i == ScriptIndex(base, script)
        counted == [base[i] EXCEPT !.count = @ + 1]
        data == IF entry.duration # None
                THEN [counted EXCEPT !.timed_count = @ + 1,
                                     !.total_time = @ + entry.duration[1],
                                     !.max_time = entry.duration[1]]
                ELSE counted
    IN  [base EXCEPT ![i] = data]

\* count incremented only for the entries without a duration
record_entry_count_untimed(sr, entry) ==
    LET script == entry.script[1]
        base == IF HasScript(sr, script) THEN sr ELSE Append(sr, NewScriptData(script))
        i == ScriptIndex(base, script)
        data == IF entry.duration # None
                THEN [base[i] EXCEPT !.timed_count = @ + 1,
                                     !.total_time = @ + entry.duration[1],
                                     !.max_time = Max(@, entry.duration[1])]
                ELSE [base[i] EXCEPT !.count = @ + 1]
    IN  [base EXCEPT ![i] = data]

\* lines 873-879: the statistics of the entry's script after record_entry
record_entry_requests(sr, entry) ==
    LET script == entry.script[1]
        base == IF HasScript(sr, script) THEN sr ELSE Append(sr, NewScriptData(script))
        i == ScriptIndex(base, script)
        counted == [base[i] EXCEPT !.count = @ + 1]
        data == IF entry.duration # None
                THEN [counted EXCEPT !.timed_count = @ + 1,
                                     !.total_time = @ + entry.duration[1],
                                     !.max_time = Max(@, entry.duration[1])]
                ELSE counted
    IN  [base EXCEPT ![i] = data]

\* lines 880-882: plugin_entry_counts after record_entry
record_entry_plugins(pec, entry) ==
    [p \in DOMAIN pec \cup entry.plugins |->
        (IF p \in DOMAIN pec THEN pec[p] ELSE 0) + (IF p \in entry.plugins THEN 1 ELSE 0)]

\* The entries the recording rule admits, by script and duration
Qualifies(entry) ==
    /\ entry.script # None
    /\ (entry.date = None \/ entry.date[1] >= cutoff_date)

\* lines 866-882: record_entry(entry)
RecordEntry ==
    /\ op = "analyze_slow_logs"
    /\ pcMain = "fold"
    /\ Len(folded) < MaxFolded
    /\ \E entry \in Entries :
         /\ current_entry' = entry
         /\ IF EntryRecorded(entry, cutoff_date)
            THEN /\ slow_requests' = record_entry_requests(slow_requests, entry)
                 /\ plugin_entry_counts' = record_entry_plugins(plugin_entry_counts, entry)
            ELSE UNCHANGED <<slow_requests, plugin_entry_counts>>
         /\ folded' = IF Qualifies(entry)
                      THEN Append(folded, <<entry.script[1], entry.duration>>)
                      ELSE folded
    /\ UNCHANGED <<op, granularity, libVars, gateVars, capVars, tpVars, cutoff_date, slow_scripts, top_n,
                   top_slow_scripts>>

\* lines 944-954: the emitted record of one script; round(avg_time, 3) is one of avgs
ScriptRecord(data, avg) ==
    [script |-> data.script,
     count |-> data.count,
     avg_time |-> IF data.timed_count > 0 THEN Some(avg) ELSE None,
     max_time |-> IF data.timed_count > 0 THEN Some(data.max_time) ELSE None,
     total_time |-> IF data.timed_count > 0 THEN Some(data.total_time) ELSE None,
     timed_count |-> data.timed_count]

AvgTimeCands(data) ==
    IF data.timed_count > 0 THEN RoundCands(data.total_time, data.timed_count) ELSE {0}

\* line 958: the sort key
SortKey(x) == <<IF x.total_time # None THEN x.total_time[1] ELSE 0, x.count>>
\* the comparison of an ascending sort
KeyLess(a, b) == a[1] < b[1] \/ (a[1] = b[1] /\ a[2] < b[2])

\* line 960: reverse=True, the greater key goes first
KeyGreater(a, b) == a[1] > b[1] \/ (a[1] = b[1] /\ a[2] > b[2])

\* x goes before the first element whose key is smaller than its own
InsertRanked(ranked, x) ==
    LET smaller == {i \in 1..Len(ranked) : KeyGreater(SortKey(x), SortKey(ranked[i]))}
        at == IF smaller = {} THEN Len(ranked) + 1
              ELSE CHOOSE i \in smaller : \A j \in smaller : i <= j
    IN  SubSeq(ranked, 1, at - 1) \o <<x>> \o SubSeq(ranked, at, Len(ranked))

RECURSIVE SortRanked(_)
\* lines 957-960: list.sort(key, reverse=True), which is stable
SortRanked(xs) ==
    IF xs = <<>> THEN <<>>
    ELSE InsertRanked(SortRanked(SubSeq(xs, 1, Len(xs) - 1)), xs[Len(xs)])

\* lines 938-967: the records are built, ranked and cut to top_n
Emit ==
    /\ op = "analyze_slow_logs"
    /\ pcMain = "fold"
    /\ IF slow_requests = <<>>
       THEN UNCHANGED <<slow_scripts, top_slow_scripts>>
       ELSE \E avgs \in [1..Len(slow_requests) ->
                          UNION {AvgTimeCands(slow_requests[i]) : i \in 1..Len(slow_requests)}] :
              /\ \A i \in 1..Len(slow_requests) : avgs[i] \in AvgTimeCands(slow_requests[i])
              /\ LET built == [i \in 1..Len(slow_requests) |->
                                  ScriptRecord(slow_requests[i], avgs[i])]
                     ranked == SortRanked(built)
                 IN  /\ slow_scripts' = ranked
                     /\ top_slow_scripts' = SubSeq(ranked, 1, Min(top_n, Len(ranked)))
    /\ pcMain' = "done"
    /\ UNCHANGED <<op, granularity, libVars, gateVars, pc, resp, req_time, tmp, lock, now, start_time,
                   search_start, test_duration, levelIdx, spawned, success_count,
                   error_count, response_times, attempts, ok_attempts, max_concurrent,
                   successful_levels, tested, outcomes, broke, tpVars, slow_requests,
                   plugin_entry_counts, cutoff_date, current_entry, folded, top_n>>

----------------------------------------------------------------------------
(* _normalize_time_seconds and _normalize_memory_mb (lines 1256-1285) *)

\* A float is the fraction <<numerator, denominator>> in lowest terms, denominator > 0.
RECURSIVE GCD(_, _)
GCD(a, b) == IF b = 0 THEN a ELSE GCD(b, a % b)
Frac(n, d) == LET g == GCD(Abs(n), d) IN <<n \div g, d \div g>>
FracDiv(q, k) == LET g == GCD(Abs(q[1]), k) IN <<q[1] \div g, q[2] * (k \div g)>>
FracMul(q, k) == LET g == GCD(q[2], k) IN <<q[1] * (k \div g), q[2] \div g>>
FracLess(a, b) == a[1] * b[2] < b[1] * a[2]
FracLeq(a, b) == a[1] * b[2] <= b[1] * a[2]

\* values passed to the normalizers: around 0, around 1000, around 5000, around 1024*1024
NormValues ==
    {Frac(n, 1) : n \in {-5, 0, 1, 60, 999, 1000, 1001, 2500, 4999, 5000, 5001,
                         1048575, 1048576, 1048577}}
    \cup {Frac(1, 2), Frac(9999, 2)}

\* unit strings passed to the normalizers; the regexes are case-insensitive
UnitNames == {"", "ms", "msec", "MS", "s", "sec", "seconds", "b", "bytes", "kb", "k", "KB",
              "mb", "m", "gb", "g", "GB", "min"}
Units == {None} \cup {Some(u) : u \in UnitNames}

\* str.lower() on the unit strings above
Lower(u) == CASE u = "MS" -> "ms"
              [] u = "KB" -> "kb"
              [] u = "GB" -> "gb"
              [] OTHER -> u

\* `if unit:` is false for None and for the empty string
Truthy(u) == u # None /\ u # Some("")

\* a unit other than ms/msec falling through to the magnitude test
normalize_time_unit_ignored(v, u) ==
    IF FracLeq(v, <<0, 1>>) THEN None
    ELSE IF Truthy(u) /\ Lower(u[1]) \in {"ms", "msec"} THEN Some(FracDiv(v, 1000))
    ELSE IF FracLess(<<1000, 1>>, v) THEN Some(FracDiv(v, 1000)) ELSE Some(v)

\* lines 1256-1266
normalize_time_seconds(v, u) ==
    IF FracLeq(v, <<0, 1>>) THEN None
    ELSE IF Truthy(u)
         THEN IF Lower(u[1]) \in {"ms", "msec"} THEN Some(FracDiv(v, 1000)) ELSE Some(v)
         ELSE IF FracLess(<<1000, 1>>, v) THEN Some(FracDiv(v, 1000)) ELSE Some(v)

\* lines 1281-1285: the magnitude tests on a memory value
memory_by_magnitude(v) ==
    IF FracLeq(<<1024 * 1024, 1>>, v) THEN Some(FracDiv(v, 1024 * 1024))
    ELSE IF FracLeq(<<5000, 1>>, v) THEN Some(FracDiv(v, 1024))
    ELSE Some(v)

\* the kilobyte test starting at 1024
normalize_memory_kb_from_1024(v, u) ==
    LET l == IF Truthy(u) THEN Lower(u[1]) ELSE ""
    IN  IF FracLeq(v, <<0, 1>>) THEN None
        ELSE IF l \in {"b", "bytes"} THEN Some(FracDiv(v, 1024 * 1024))
        ELSE IF l \in {"kb", "k"} THEN Some(FracDiv(v, 1024))
        ELSE IF l \in {"mb", "m"} THEN Some(v)
        ELSE IF l \in {"gb", "g"} THEN Some(FracMul(v, 1024))
        ELSE IF FracLeq(<<1024 * 1024, 1>>, v) THEN Some(FracDiv(v, 1024 * 1024))
        ELSE IF FracLeq(<<1024, 1>>, v) THEN Some(FracDiv(v, 1024))
        ELSE Some(v)

\* lines 1268-1285; a unit outside the four groups falls through to the magnitude tests
normalize_memory_mb(v, u) ==
    LET l == IF Truthy(u) THEN Lower(u[1]) ELSE ""
    IN  IF FracLeq(v, <<0, 1>>) THEN None
        ELSE IF l \in {"b", "bytes"} THEN Some(FracDiv(v, 1024 * 1024))
        ELSE IF l \in {"kb", "k"} THEN Some(FracDiv(v, 1024))
        ELSE IF l \in {"mb", "m"} THEN Some(v)
        ELSE IF l \in {"gb", "g"} THEN Some(FracMul(v, 1024))
        ELSE memory_by_magnitude(v)

\* a call of self._normalize_time_seconds(value, unit)
NormalizeTime ==
    /\ op = "_normalize_time_seconds"
    /\ calls = 0
    /\ returned' = normalize_time_seconds(value, unit)
    /\ calls' = 1
    /\ UNCHANGED <<op, granularity, capVars, tpVars, slowVars, gateVars, extVars, normVars, pctVars, catVars,
                   exVars, corrVars>>

\* a call of self._normalize_memory_mb(value, unit)
NormalizeMemory ==
    /\ op = "_normalize_memory_mb"
    /\ calls = 0
    /\ returned' = normalize_memory_mb(value, unit)
    /\ calls' = 1
    /\ UNCHANGED <<op, granularity, capVars, tpVars, slowVars, gateVars, extVars, normVars, pctVars, catVars,
                   exVars, corrVars>>

----------------------------------------------------------------------------
(* _percentile (lines 1501-1514) *)

SampleVals == 1..5                 \* sample values before scaling
Scales == {1, 10}                  \* the samples are SampleVals times one of these
Percentiles == {0, 50, 95, 100}    \* values of the percentile argument

\* the sample lists handed to _percentile, in any order, with repetitions
SampleLists ==
    UNION {[1..n -> SampleVals] : n \in 0..MaxSamples}

\* x goes after the elements that are not greater than it
InsertAsc(sv, x) ==
    LET greater == {i \in 1..Len(sv) : sv[i] > x}
        at == IF greater = {} THEN Len(sv) + 1
              ELSE CHOOSE i \in greater : \A j \in greater : i <= j
    IN  SubSeq(sv, 1, at - 1) \o <<x>> \o SubSeq(sv, at, Len(sv))

RECURSIVE Sorted(_)
\* line 1504: sorted(values), a new list in ascending order
Sorted(xs) ==
    IF xs = <<>> THEN <<>>
    ELSE InsertAsc(Sorted(SubSeq(xs, 1, Len(xs) - 1)), xs[Len(xs)])

\* lines 1507-1514 on a list of at least two elements; rank = (p / 100) * (n - 1)
Interpolate(sv, p) ==
    LET n == Len(sv)
        lower_index == (p * (n - 1)) \div 100
        upper_index == Min(lower_index + 1, n - 1)
        fraction == (p * (n - 1)) % 100          \* in hundredths
    IN  Frac(sv[lower_index + 1] * (100 - fraction) + sv[upper_index + 1] * fraction, 100)

\* the interpolation applied to the list as given
percentile_unsorted(vals, p) ==
    IF vals = <<>> THEN None
    ELSE IF Len(vals) = 1 THEN Some(Frac(vals[1], 1))
    ELSE Some(Interpolate(vals, p))

\* lines 1501-1514
percentile_of(vals, p) ==
    IF vals = <<>> THEN None
    ELSE LET sorted_values == Sorted(vals)
         IN  IF Len(sorted_values) = 1 THEN Some(Frac(sorted_values[1], 1))
             ELSE Some(Interpolate(sorted_values, p))

\* a call of self._percentile(values, percentile); values is only read
Percentile ==
    /\ op = "_percentile"
    /\ calls = 0
    /\ returned' = percentile_of(values, percentile)
    /\ values' = values
    /\ calls' = 1
    /\ UNCHANGED <<op, granularity, capVars, tpVars, slowVars, gateVars, extVars, normVars,
                   percentile, catVars, exVars, corrVars>>

----------------------------------------------------------------------------
(* analyze_slow_logs: extract_plugin and categorize_path (lines 840-864) *)

\* A path is its segments between slashes and whether it starts with a slash:
\* "/wp-admin/x.php" is [abs |-> TRUE, segs |-> <<"wp-admin", "x.php">>].
Fragments ==
    {<<"wp-content", "plugins">>, <<"wp-content", "themes">>, <<"woocommerce", "x.php">>,
     <<"astra">>, <<"wp-includes">>, <<"x.php">>}

RECURSIVE FragmentSeqs(_)
\* the concatenations of at most n fragments
FragmentSeqs(n) ==
    IF n = 0 THEN {<<>>}
    ELSE LET shorter == FragmentSeqs(n - 1)
         IN  shorter \cup {f \o t : f \in Fragments, t \in shorter}

Paths == [abs : BOOLEAN, segs : FragmentSeqs(MaxFragments)]

\* the text before segment i ends with a slash
SlashBefore(p, i) == i > 1 \/ p.abs

\* re.search(r'/wp-content/<dir>/([^/]+)/', path) matches with its group at segment i + 2
DirNameAt(p, dir, i) ==
    /\ SlashBefore(p, i)
    /\ i + 3 <= Len(p.segs)
    /\ p.segs[i] = "wp-content"
    /\ p.segs[i + 1] = dir
    /\ p.segs[i + 2] # ""

\* group(1) of the leftmost match, None without a match
DirName(p, dir) ==
    LET at == {i \in 1..Len(p.segs) : DirNameAt(p, dir, i)}
    IN  IF at = {} THEN None
        ELSE Some(p.segs[(CHOOSE i \in at : \A j \in at : i <= j) + 2])

\* lines 840-846
extract_plugin(p) ==
    IF p.segs = <<>> /\ ~ p.abs THEN None ELSE DirName(p, "plugins")

\* '/<dir>/' in path
ContainsDir(p, dir) ==
    \E i \in 1..Len(p.segs) : SlashBefore(p, i) /\ i + 1 <= Len(p.segs) /\ p.segs[i] = dir

\* '/wp-content/themes/' in path
ContainsThemes(p) ==
    \E i \in 1..Len(p.segs) :
        /\ SlashBefore(p, i)
        /\ i + 2 <= Len(p.segs)
        /\ p.segs[i] = "wp-content"
        /\ p.segs[i + 1] = "themes"

\* tally[key] += 1 on a defaultdict(int)
Incremented(tally, key) ==
    [k \in DOMAIN tally \cup {key} |->
        (IF k \in DOMAIN tally THEN tally[k] ELSE 0) + (IF k = key THEN 1 ELSE 0)]

\* the three tallies as one record
Tallies(sc, pth, tc) == [source_counts |-> sc, plugin_trace_hits |-> pth, theme_counts |-> tc]

\* the theme test made before the plugin test
categorize_theme_first(t, p) ==
    IF ContainsThemes(p) /\ DirName(p, "themes") # None
    THEN [t EXCEPT !.theme_counts = Incremented(@, DirName(p, "themes")[1]),
                   !.source_counts = Incremented(@, "themes")]
    ELSE IF extract_plugin(p) # None
    THEN [t EXCEPT !.plugin_trace_hits = Incremented(@, extract_plugin(p)[1]),
                   !.source_counts = Incremented(@, "plugins")]
    ELSE IF ContainsDir(p, "wp-includes") \/ ContainsDir(p, "wp-admin")
    THEN [t EXCEPT !.source_counts = Incremented(@, "core")]
    ELSE [t EXCEPT !.source_counts = Incremented(@, "other")]

\* lines 848-864: the tallies after categorize_path(p)
categorize_path(t, p) ==
    IF extract_plugin(p) # None
    THEN [t EXCEPT !.plugin_trace_hits = Incremented(@, extract_plugin(p)[1]),
                   !.source_counts = Incremented(@, "plugins")]
    ELSE IF ContainsThemes(p) /\ DirName(p, "themes") # None
    THEN [t EXCEPT !.theme_counts = Incremented(@, DirName(p, "themes")[1]),
                   !.source_counts = Incremented(@, "themes")]
    ELSE IF ContainsDir(p, "wp-includes") \/ ContainsDir(p, "wp-admin")
    THEN [t EXCEPT !.source_counts = Incremented(@, "core")]
    ELSE [t EXCEPT !.source_counts = Incremented(@, "other")]

\* earlier calls of categorize_path in the same run: none, or one of these paths
EarlierPaths ==
    {[abs |-> TRUE, segs |-> <<"wp-content", "plugins", "woocommerce", "x.php">>],
     [abs |-> TRUE, segs |-> <<"wp-content", "themes", "astra", "x.php">>],
     [abs |-> TRUE, segs |-> <<"wp-includes", "x.php">>],
     [abs |-> TRUE, segs |-> <<"x.php">>]}

NoTallies == Tallies(<<>>, <<>>, <<>>)

\* a call of categorize_path(path)
CategorizePath ==
    /\ op = "categorize_path"
    /\ calls = 0
    /\ LET t == categorize_path(Tallies(source_counts, plugin_trace_hits, theme_counts), path)
       IN  /\ source_counts' = t.source_counts
           /\ plugin_trace_hits' = t.plugin_trace_hits
           /\ theme_counts' = t.theme_counts
    /\ calls' = 1
    /\ UNCHANGED <<op, granularity, capVars, tpVars, slowVars, gateVars, extVars, returned, normVars,
                   pctVars, path, exVars, corrVars>>

----------------------------------------------------------------------------
(* _extract_script_from_line, _extract_request_path, _extract_access_metrics *)
(* (lines 1287-1499) and the loop bodies that call it (lines 1159-1161, 1568-1572) *)

\* A whitespace-separated token of a log line: its kind k, its number v, its text u.
\*   "num"    a bare number                      "pct"   a number followed by %
\*   "unit"   a number with a unit attached (u)  "time", "mem", "cpu"   key=number[unit]
\*   "script" script=<u>                         "php", "phpq"   a path u with .php (and ?query)
\*   "path"   a path without .php                "method", "word"   other text
Tok(k, v, u) == [k |-> k, v |-> v, u |-> u]

\* tokens found between and after the quoted fields
MetricTokens ==
    {Tok("num", <<1, 2>>, ""), Tok("num", <<45, 1>>, ""), Tok("num", <<200, 1>>, ""),
     Tok("num", <<8192, 1>>, ""), Tok("num", <<-5, 1>>, ""),
     Tok("pct", <<15, 1>>, ""),
     Tok("unit", <<340, 1>>, "ms"), Tok("unit", <<512, 1>>, "kb"),
     Tok("time", <<0, 1>>, ""), Tok("cpu", <<250, 1>>, ""),
     Tok("script", <<0, 1>>, "/index.php"),
     Tok("php", <<0, 1>>, "/cron.php"),
     Tok("word", <<0, 1>>, "-")}

\* the first quoted field: a request line, with or without .php in its path
Requests ==
    {<<Tok("method", <<0, 1>>, "GET"), Tok("phpq", <<0, 1>>, "/index.php"),
       Tok("word", <<0, 1>>, "HTTP/1.1")>>,
     <<Tok("method", <<0, 1>>, "GET"), Tok("path", <<0, 1>>, "/wp-admin/"),
       Tok("word", <<0, 1>>, "HTTP/1.1")>>}

\* the second quoted field
Trailings == {Tok("php", <<0, 1>>, "/var/www/index.php"), Tok("word", <<0, 1>>, "-")}

TokenSeqs(n) == UNION {[1..k -> MetricTokens] : k \in 0..n}

\* A line is: an optional quoted request, the tokens after it (the whole line when
\* nothing is quoted), an optional second quoted field and the tokens after that.
\* Without the second quoted field there is nothing after it.
Lines(m) ==
    {[request |-> None, mid |-> m, trailing |-> None, tail |-> <<>>]}
    \cup {[request |-> Some(r), mid |-> m, trailing |-> None, tail |-> <<>>] : r \in Requests}
    \cup {[request |-> Some(r), mid |-> m, trailing |-> Some(q), tail |-> t] :
             r \in Requests, q \in Trailings, t \in TokenSeqs(MaxTokens - Len(m))}

\* the tokens of the whole line, in order
AllTokens(l) ==
    (IF l.request # None THEN l.request[1] ELSE <<>>) \o l.mid
    \o (IF l.trailing # None THEN <<l.trailing[1]>> ELSE <<>>) \o l.tail

\* line.split('"')[-1], or the line itself without a quote
LastPart(l) == IF l.trailing # None THEN l.tail ELSE l.mid

FirstIn(S) == CHOOSE i \in S : \A j \in S : i <= j
LastIn(S) == CHOOSE i \in S : \A j \in S : i >= j
MinFrac(S) == CHOOSE x \in S : \A y \in S : FracLeq(x, y)
MaxFrac(S) == CHOOSE x \in S : \A y \in S : FracLeq(y, x)
FracAbs(q) == <<Abs(q[1]), q[2]>>
Range(f) == {f[i] : i \in DOMAIN f}

\* '.php' in token, for a path token
IsPhp(t) == t.k \in {"php", "phpq"}

\* the text matched by \S+\.php(?:\?\S+)? up to the '?': \S+ takes in the quote
\* character that opens a quoted field
MatchedPhp(l, i) ==
    LET t == AllTokens(l)[i]
        opens == l.trailing # None /\ t = l.trailing[1]
                 /\ i = Len(AllTokens(l)) - Len(l.tail)
    IN  IF opens /\ t.u = "/var/www/index.php" THEN "\"/var/www/index.php" ELSE t.u

\* lines 1312-1320: group(1) of '"(GET|POST|...)\s+([^" ]+)', as a token
extract_request_path(l) ==
    IF l.request # None /\ Len(l.request[1]) >= 2 /\ l.request[1][1].k = "method"
    THEN Some(l.request[1][2])
    ELSE None

\* lines 1287-1310
extract_script_from_line(l) ==
    LET toks == AllTokens(l)
        labels == {i \in 1..Len(toks) : toks[i].k = "script"}
        request_path == extract_request_path(l)
        php_matches == {i \in 1..Len(toks) : IsPhp(toks[i])}
    IN  IF labels # {} THEN Some(toks[FirstIn(labels)].u)
        ELSE IF request_path # None /\ IsPhp(request_path[1]) THEN Some(request_path[1].u)
        ELSE IF php_matches # {} THEN Some(MatchedPhp(l, LastIn(php_matches)))
        ELSE None

\* re.fullmatch(r'\d{3}', token)
ThreeDigits(t) == t.k = "num" /\ t.v[2] = 1 /\ t.v[1] >= 100 /\ t.v[1] <= 999

DropStatus(tokens) ==
    IF tokens # <<>> /\ ThreeDigits(tokens[1]) THEN Tail(tokens) ELSE tokens

NotDash(t) == ~ (t.k = "word" /\ t.u = "-")
IsNum(t) == t.k = "num"
IsPct(t) == t.k = "pct"
IsTimeUnit(t) == t.k = "unit" /\ t.u \in {"ms", "msec", "s", "sec"}
IsMemUnit(t) == t.k = "unit" /\ t.u \in {"kb", "k", "mb", "m", "gb", "g", "bytes", "b"}
InTimeRange(v) == FracLess(<<0, 1>>, v) /\ FracLeq(v, <<60, 1>>)

\* lines 1330-1376: the line has two quoted fields
QuotedFields(l, m) ==
    IF l.trailing = None THEN m
    ELSE LET req_tokens == l.request[1]
             s1 == IF Len(req_tokens) >= 2 /\ IsPhp(req_tokens[2])
                   THEN Some(req_tokens[2].u) ELSE m.script
             s2 == IF s1 = None /\ IsPhp(l.trailing[1]) THEN Some(l.trailing[1].u) ELSE s1
             tokens == DropStatus(SelectSeq(l.mid, NotDash))
             percent_tokens == SelectSeq(tokens, IsPct)
             numeric_tokens == Range(SelectSeq(tokens, IsNum))
             nums == {t.v : t \in numeric_tokens}
             candidates == {v \in nums : InTimeRange(v)}
         IN  [script |-> s2,
              cpu_percent |-> IF percent_tokens # <<>> /\ m.cpu_percent = None
                              THEN Some(percent_tokens[1].v) ELSE m.cpu_percent,
              request_time_sec |-> IF nums # {} /\ m.request_time_sec = None /\ candidates # {}
                                   THEN Some(MinFrac(candidates)) ELSE m.request_time_sec,
              memory_mb |-> IF nums # {} /\ m.memory_mb = None
                               /\ FracLess(<<100, 1>>, MaxFrac(nums))
                            THEN normalize_memory_mb(MaxFrac(nums), None)
                            ELSE m.memory_mb]

UnitOf(t) == IF t.u = "" THEN None ELSE Some(t.u)

\* lines 1378-1406: the first key=value token of each kind overwrites the field
Labeled(l, m) ==
    LET toks == AllTokens(l)
        tm == {i \in 1..Len(toks) : toks[i].k = "time"}
        mm == {i \in 1..Len(toks) : toks[i].k = "mem"}
        cm == {i \in 1..Len(toks) : toks[i].k = "cpu"}
    IN  [script |-> m.script,
         request_time_sec |-> IF tm # {}
                              THEN normalize_time_seconds(toks[FirstIn(tm)].v, UnitOf(toks[FirstIn(tm)]))
                              ELSE m.request_time_sec,
         memory_mb |-> IF mm # {}
                       THEN normalize_memory_mb(toks[FirstIn(mm)].v, UnitOf(toks[FirstIn(mm)]))
                       ELSE m.memory_mb,
         cpu_percent |-> IF cm # {} THEN Some(toks[FirstIn(cm)].v) ELSE m.cpu_percent]

\* lines 1408-1431: the first <number><unit> or <number>% of the line, for a field
\* still absent; the patterns have no sign, so the number is taken without it
BareUnits(l, m) ==
    LET toks == AllTokens(l)
        tu == {i \in 1..Len(toks) : IsTimeUnit(toks[i])}
        mu == {i \in 1..Len(toks) : IsMemUnit(toks[i])}
        pt == {i \in 1..Len(toks) : IsPct(toks[i])}
    IN  [script |-> m.script,
         request_time_sec |-> IF m.request_time_sec = None /\ tu # {}
                              THEN normalize_time_seconds(FracAbs(toks[FirstIn(tu)].v),
                                                          Some(toks[FirstIn(tu)].u))
                              ELSE m.request_time_sec,
         memory_mb |-> IF m.memory_mb = None /\ mu # {}
                       THEN normalize_memory_mb(FracAbs(toks[FirstIn(mu)].v),
                                                Some(toks[FirstIn(mu)].u))
                       ELSE m.memory_mb,
         cpu_percent |-> IF m.cpu_percent = None /\ pt # {}
                         THEN Some(FracAbs(toks[FirstIn(pt)].v)) ELSE m.cpu_percent]

RECURSIVE ScanTokens(_, _)
\* lines 1448-1474: the percent and unit tokens of the last part, left to right
ScanTokens(tokens, m) ==
    IF tokens = <<>> THEN m
    ELSE LET t == Head(tokens)
             m1 == IF IsPct(t)
                   THEN IF m.cpu_percent = None THEN [m EXCEPT !.cpu_percent = Some(t.v)] ELSE m
                   ELSE IF IsTimeUnit(t)
                   THEN IF m.request_time_sec = None
                        THEN [m EXCEPT !.request_time_sec = normalize_time_seconds(t.v, Some(t.u))]
                        ELSE m
                   ELSE IF IsMemUnit(t)
                   THEN IF m.memory_mb = None
                        THEN [m EXCEPT !.memory_mb = normalize_memory_mb(t.v, Some(t.u))]
                        ELSE m
                   ELSE m
         IN  ScanTokens(Tail(tokens), m1)

\* lines 1433-1494: the tokens after the last quote, when time or memory is absent
Fallback(l, m) ==
    IF m.request_time_sec # None /\ m.memory_mb # None THEN m
    ELSE LET tokens0 == DropStatus(LastPart(l))
             phps == {i \in 1..Len(tokens0) : tokens0[i].k \in {"php", "phpq", "script"}}
             pop == m.script = None /\ phps # {}
             at == IF pop THEN FirstIn(phps) ELSE 0
             tokens == IF pop
                       THEN SubSeq(tokens0, 1, at - 1) \o SubSeq(tokens0, at + 1, Len(tokens0))
                       ELSE tokens0
             m1 == IF pop THEN [m EXCEPT !.script = Some(tokens0[at].u)] ELSE m
             m2 == ScanTokens(tokens, m1)
             numeric_values == SelectSeq(tokens, IsNum)
             n == Len(numeric_values)
             times == {i \in 1..n : InTimeRange(numeric_values[i].v)}
             ti == IF times = {} THEN 0 ELSE FirstIn(times)
             cpus == {i \in 1..n : /\ i # ti
                                   /\ FracLeq(<<0, 1>>, numeric_values[i].v)
                                   /\ FracLeq(numeric_values[i].v, <<100, 1>>)}
             candidate_memory == MaxFrac({numeric_values[i].v : i \in 1..n})
         IN  IF n = 0 THEN m2
             ELSE [script |-> m2.script,
                   request_time_sec |-> IF m2.request_time_sec = None /\ ti # 0
                                        THEN normalize_time_seconds(numeric_values[ti].v, None)
                                        ELSE m2.request_time_sec,
                   memory_mb |-> IF m2.memory_mb = None
                                 THEN normalize_memory_mb(candidate_memory, None)
                                 ELSE m2.memory_mb,
                   cpu_percent |-> IF m2.cpu_percent = None /\ cpus # {}
                                   THEN Some(numeric_values[FirstIn(cpus)].v)
                                   ELSE m2.cpu_percent]

\* lines 1323-1494: the metrics dict before the final test
BuiltMetrics(l) ==
    Fallback(l, BareUnits(l, Labeled(l, QuotedFields(l,
        [request_time_sec |-> None, memory_mb |-> None, cpu_percent |-> None,
         script |-> extract_script_from_line(l)]))))

\* the empty dict
NoSignal == <<>>

\* lines 1322-1499
extract_access_metrics(l) ==
    LET m == BuiltMetrics(l)
    IN  IF m.request_time_sec = None /\ m.memory_mb = None /\ m.cpu_percent = None
        THEN NoSignal ELSE m

\* lines 1568-1572: one line of analyze_php_resources' loop: the line is parsed and
\* skipped when nothing came back
ExtractLine ==
    /\ op = "_extract_access_metrics"
    /\ calls = 0
    /\ returned' = extract_access_metrics(line)
    /\ parsed_entries' = IF extract_access_metrics(line) = NoSignal
                         THEN parsed_entries ELSE parsed_entries + 1
    /\ calls' = 1
    /\ UNCHANGED <<op, granularity, capVars, tpVars, slowVars, gateVars, extVars, normVars, pctVars,
                   catVars, line, corrVars>>

----------------------------------------------------------------------------
(* Correlation with the access log: script_keys and the index of               *)
(* _load_access_log_timing (lines 1182-1205), access_match and the loop that   *)
(* attaches its result (lines 1013-1041)                                       *)

\* A script path: whether it starts with a slash, its segments, whether a ?query follows.
ScriptPath(abs, segs, query) == [abs |-> abs, segs |-> segs, query |-> query]

PluginScript == <<"wp-content", "plugins", "foo", "bar.php">>

\* scripts seen in the access log, already without their query (line 1163)
AccessPaths ==
    {ScriptPath(TRUE, PluginScript, FALSE), ScriptPath(FALSE, PluginScript, FALSE),
     ScriptPath(TRUE, <<"other", "bar.php">>, FALSE), ScriptPath(FALSE, <<"bar.php">>, FALSE),
     ScriptPath(TRUE, <<"index.php">>, FALSE)}

\* scripts seen in the slow log
SlowPaths ==
    AccessPaths \cup {ScriptPath(TRUE, <<"index.php">>, TRUE),
                      ScriptPath(FALSE, <<"cron.php">>, FALSE)}

\* script.split('?')[0]
normalize_script(p) == [p EXCEPT !.query = FALSE]

\* clean.lstrip('/') for a path with a leading slash, '/' + clean for one without
OtherSlash(p) == [p EXCEPT !.abs = ~ p.abs]

\* os.path.basename(clean)
Basename(p) == ScriptPath(FALSE, <<p.segs[Len(p.segs)]>>, FALSE)

\* the keys without the basename
script_keys_without_basename(script) ==
    LET clean == normalize_script(script)
    IN  IF clean.segs = <<>> THEN {} ELSE {clean, OtherSlash(clean)}

\* lines 1182-1193 and 1020-1026: the key variants of a script, as a set
script_keys(script) ==
    LET clean == normalize_script(script)
    IN  IF clean.segs = <<>> THEN {} ELSE {clean, OtherSlash(clean), Basename(clean)}

\* the access-log statistics of the i-th script of script_stats, times in ms;
\* total_time / count is a whole number of ms, so round(avg_time, 3) changes nothing
AccessStatsAt(script, i) ==
    [script |-> script, count |-> i, total_time |-> 300 * i * i, max_time |-> 400 * i]

\* lines 1197-1203
Summary(stats) ==
    [script |-> stats.script,
     count |-> stats.count,
     avg_time_sec |-> stats.total_time \div stats.count,
     max_time_sec |-> stats.max_time]

RECURSIVE BuildIndex(_)
\* lines 1195-1205: every key of every script is set to its summary, in dict order,
\* a later script overwriting the keys it shares with an earlier one
BuildIndex(stats) ==
    IF stats = <<>> THEN <<>>
    ELSE LET earlier == BuildIndex(SubSeq(stats, 1, Len(stats) - 1))
             last == stats[Len(stats)]
             keys == script_keys(last.script)
         IN  [k \in DOMAIN earlier \cup keys |->
                 IF k \in keys THEN Summary(last) ELSE earlier[k]]

\* lines 1017-1030: the results access_match can return.  keys is a Python set of
\* strings, whose iteration order follows the per-process string hashes, so the key
\* tried first can be any of them.
access_match(index, script_path) ==
    LET present == script_keys(script_path) \cap DOMAIN index
    IN  IF present = {} THEN {None} ELSE {Some(index[k]) : k \in present}

NoAccess ==
    [access_avg_time_sec |-> None, access_max_time_sec |-> None, access_count |-> None]

\* lines 1034-1037: the three fields set on script_data for a match
Attached(script_data, match) ==
    IF match = None THEN script_data
    ELSE [script_data EXCEPT !.access_avg_time_sec = Some(match[1].avg_time_sec),
                             !.access_max_time_sec = Some(match[1].max_time_sec),
                             !.access_count = Some(match[1].count)]

\* lines 1195-1225 of _load_access_log_timing, called at line 1013
LoadAccessLogTiming ==
    /\ op = "analyze_slow_logs"
    /\ pcMain = "access"
    /\ script_index' = BuildIndex(script_stats)
    /\ pcMain' = "match"
    /\ UNCHANGED <<op, granularity, pc, resp, req_time, tmp, lock, now, start_time,
                   search_start, test_duration, levelIdx, spawned, success_count,
                   error_count, response_times, attempts, ok_attempts, max_concurrent,
                   successful_levels, tested, outcomes, broke, tpVars, slowVars, gateVars, extVars,
                   calls, returned, normVars, pctVars, catVars, exVars, script_stats>>

\* the loop leaving at the first script without a match
CorrelateUntilMiss ==
    /\ op = "analyze_slow_logs"
    /\ pcMain = "match"
    /\ IF script_stats = <<>>
       THEN UNCHANGED <<slow_scripts, top_slow_scripts>>
       ELSE \E matches \in [1..Len(slow_scripts) ->
                              UNION {access_match(script_index, slow_scripts[i].script) :
                                        i \in 1..Len(slow_scripts)}] :
              /\ \A i \in 1..Len(slow_scripts) :
                    matches[i] \in access_match(script_index, slow_scripts[i].script)
              /\ slow_scripts' =
                    [i \in 1..Len(slow_scripts) |->
                        IF \E j \in 1..i : matches[j] = None THEN slow_scripts[i]
                        ELSE Attached(slow_scripts[i], matches[i])]
              /\ top_slow_scripts' = SubSeq(slow_scripts', 1, Len(top_slow_scripts))
    /\ pcMain' = "done"
    /\ UNCHANGED <<op, granularity, pc, resp, req_time, tmp, lock, now, start_time,
                   search_start, test_duration, levelIdx, spawned, success_count,
                   error_count, response_times, attempts, ok_attempts, max_concurrent,
                   successful_levels, tested, outcomes, broke, tpVars, slow_requests,
                   plugin_entry_counts, cutoff_date, current_entry, folded, top_n, gateVars,
                   libVars>>

\* lines 1014-1037: every script of slow_scripts is looked up; top_slow_scripts holds
\* the same dict objects, so it shows the attached fields too
Correlate ==
    /\ op = "analyze_slow_logs"
    /\ pcMain = "match"
    /\ IF script_stats = <<>>
       THEN UNCHANGED <<slow_scripts, top_slow_scripts>>
       ELSE \E matches \in [1..Len(slow_scripts) ->
                              UNION {access_match(script_index, slow_scripts[i].script) :
                                        i \in 1..Len(slow_scripts)}] :
              /\ \A i \in 1..Len(slow_scripts) :
                    matches[i] \in access_match(script_index, slow_scripts[i].script)
              /\ slow_scripts' =
                    [i \in 1..Len(slow_scripts) |-> Attached(slow_scripts[i], matches[i])]
              /\ top_slow_scripts' = SubSeq(slow_scripts', 1, Len(top_slow_scripts))
    /\ pcMain' = "done"
    /\ UNCHANGED <<op, granularity, pc, resp, req_time, tmp, lock, now, start_time,
                   search_start, test_duration, levelIdx, spawned, success_count,
                   error_count, response_times, attempts, ok_attempts, max_concurrent,
                   successful_levels, tested, outcomes, broke, tpVars, slow_requests,
                   plugin_entry_counts, cutoff_date, current_entry, folded, top_n, gateVars,
                   libVars>>

\* the sequences of at most n distinct elements of S
DistinctSeqs(S, n) ==
    UNION {{q \in [1..k -> S] : \A i \in 1..k : \A j \in 1..k : q[i] = q[j] => i = j} :
              k \in 0..n}

RECURSIVE FoldEntries(_)
\* slow_requests after record_entry was called on each entry of es
FoldEntries(es) ==
    IF es = <<>> THEN <<>>
    ELSE record_entry_requests(FoldEntries(SubSeq(es, 1, Len(es) - 1)), es[Len(es)])

----------------------------------------------------------------------------
(* WordPressHealthMonitor.run_wp_command (lines 45-60) *)

\* A text is a sequence of characters; these stand for a printing character, a blank
\* and a line break.
Chars == {"x", " ", "\n"}
Whitespace == {" ", "\n"}
Texts(n) == UNION {[1..k -> Chars] : k \in 0..n}

RECURSIVE lstrip(_)
lstrip(t) == IF t # <<>> /\ t[1] \in Whitespace THEN lstrip(Tail(t)) ELSE t

RECURSIVE rstrip(_)
rstrip(t) ==
    IF t # <<>> /\ t[Len(t)] \in Whitespace THEN rstrip(SubSeq(t, 1, Len(t) - 1)) ELSE t

\* str.strip()
strip(t) == rstrip(lstrip(t))

\* the literal "Error: " of line 60
ErrorPrefix == <<"E", "r", "r", "o", "r", ":", " ">>

\* How subprocess.run (line 49) can end: the CLI exits with a return code and what it
\* wrote to stdout, the timeout expires, or another exception is raised (for example
\* OSError when no process can be started), whose str(e) is msg.
WpOutcomes ==
    {[kind |-> "completed", returncode |-> rc, text |-> t] :
        rc \in {0, 1}, t \in Texts(MaxText)}
    \cup {[kind |-> "timeout", returncode |-> 0, text |-> <<>>]}
    \cup {[kind |-> "exception", returncode |-> 0, text |-> m] : m \in {<<>>, <<"x">>}}

\* lines 47-60: the string run_wp_command returns
run_wp_command(o) ==
    CASE o.kind = "completed" -> strip(o.text)
      [] o.kind = "timeout" -> <<>>
      [] OTHER -> ErrorPrefix \o o.text

\* a call of self.run_wp_command(command)
RunWpCommand ==
    /\ op = "run_wp_command"
    /\ calls = 0
    /\ returned' = Some(run_wp_command(wp_outcome[1]))
    /\ calls' = 1
    /\ UNCHANGED <<op, granularity, capVars, tpVars, slowVars, gateVars, normVars, pctVars,
                   catVars, exVars, corrVars, wp_outcome, passVars, resVars>>

----------------------------------------------------------------------------
(* The per-file loops of analyze_slow_logs (lines 884-936),                    *)
(* _load_access_log_timing (lines 1139-1177) and analyze_php_resources         *)
(* (lines 1548-1598)                                                           *)

\* the log files the glob patterns found, as a list
LogFiles == <<"app.log", "app.log.1.gz">>

PassOps == {"analyze_slow_logs", "_load_access_log_timing", "analyze_php_resources"}

\* the variables of the load search other than the position of the calling thread
workVars == <<pc, resp, req_time, tmp, lock, now, start_time, search_start,
              test_duration, levelIdx, spawned, success_count, error_count,
              response_times, attempts, ok_attempts, max_concurrent, successful_levels,
              tested, outcomes, broke>>

\* A slow-log line is what the parsers of lines 901-918 find in it: parse_date,
\* parse_script, parse_duration (in milliseconds), the trace function and the trace path.
SlowLine(date, script, duration, func, tpath) ==
    [date |-> date, script |-> script, duration |-> duration, func |-> func, path |-> tpath]

PlainScript == [abs |-> TRUE, segs |-> <<"var", "www", "index.php">>]
PluginFile == [abs |-> TRUE, segs |-> <<"wp-content", "plugins", "woocommerce", "x.php">>]
ThemeFile == [abs |-> TRUE, segs |-> <<"wp-content", "themes", "astra", "x.php">>]

\* a header not older than the cutoff, an older header, a header with a script on the
\* same line, a script outside and one inside the WordPress tree, a duration, a trace
\* line of a plugin with and without its function, a trace path of a theme
SlowLines ==
    {SlowLine(Some(7), None, None, None, None),
     SlowLine(Some(6), None, None, None, None),
     SlowLine(Some(7), Some(PlainScript), None, None, None),
     SlowLine(None, Some(PlainScript), None, None, None),
     SlowLine(None, Some(PluginFile), None, None, None),
     SlowLine(None, None, Some(2000), None, None),
     SlowLine(None, None, None, Some("query"), Some(PluginFile)),
     SlowLine(None, None, None, None, Some(PluginFile)),
     SlowLine(None, None, None, None, Some(ThemeFile))}

\* a header that stamps the open entry and keeps its fields
EntryAfterHeaderKeepingFields(entry, l) ==
    IF l.date # None THEN [entry EXCEPT !.date = l.date] ELSE entry

\* lines 902-905: a header opens a new entry
EntryAfterHeader(entry, l) ==
    IF l.date # None
    THEN [date |-> l.date, script |-> None, duration |-> None, plugins |-> {}]
    ELSE entry

\* lines 907-909, 913-915 and 927-930: the fields of the line go into the open entry
EntryWithFields(entry, l) ==
    LET plugin == IF l.path # None THEN extract_plugin(l.path[1]) ELSE None
    IN  [entry EXCEPT !.script = IF l.script # None THEN l.script ELSE @,
                      !.duration = IF l.duration # None THEN l.duration ELSE @,
                      !.plugins = IF plugin # None THEN @ \cup {plugin[1]} ELSE @]

\* line 910
InWordPressTree(p) ==
    ContainsDir(p, "wp-content") \/ ContainsDir(p, "wp-includes") \/ ContainsDir(p, "wp-admin")

\* categorize_path on the script alone
TalliesOfScriptOnly(t, l) ==
    IF l.script # None /\ InWordPressTree(l.script[1])
    THEN categorize_path(t, l.script[1]) ELSE t

\* lines 910-911 and 925-926: categorize_path on the script and on the trace path
TalliesAfterLine(t, l) ==
    LET t1 == IF l.script # None /\ InWordPressTree(l.script[1])
              THEN categorize_path(t, l.script[1]) ELSE t
    IN  IF l.path # None THEN categorize_path(t1, l.path[1]) ELSE t1

\* plugin_function_counts[plugin][key] += 1
IncrementedIn(pfc, plugin, key) ==
    [k \in DOMAIN pfc \cup {plugin} |->
        IF k = plugin
        THEN Incremented(IF plugin \in DOMAIN pfc THEN pfc[plugin] ELSE <<>>, key)
        ELSE pfc[k]]

\* trace lines without a function left out
PluginFunctionsOfNamedFunction(pfc, l) ==
    IF l.path # None /\ extract_plugin(l.path[1]) # None /\ l.func # None
    THEN IncrementedIn(pfc, extract_plugin(l.path[1])[1], l.func[1])
    ELSE pfc

\* lines 927-931
PluginFunctionsAfterLine(pfc, l) ==
    IF l.path # None /\ extract_plugin(l.path[1]) # None
    THEN IncrementedIn(pfc, extract_plugin(l.path[1])[1],
                       IF l.func # None THEN l.func[1] ELSE "unknown")
    ELSE pfc

\* lines 884-891 and the loop header: the next file is taken; a file whose mtime is
\* more than a day older than the cutoff is passed over
NextFile ==
    /\ op \in PassOps
    /\ pcMain = "next_file"
    /\ file_idx < Len(LogFiles)
    /\ file_idx' = file_idx + 1
    /\ \E stale \in BOOLEAN : pcMain' = IF stale THEN "next_file" ELSE "open"
    /\ UNCHANGED <<op, granularity, workVars, tpVars, slowVars, gateVars, calls, returned,
                   normVars, pctVars, catVars, exVars, corrVars, wpVars, resVars,
                   handle, open_files, lines_read, recorded, warnings, raised,
                   function_counts, plugin_function_counts>>

\* lines 893-899: open succeeds and f is bound to the new handle
OpenFile ==
    /\ op \in PassOps
    /\ pcMain = "open"
    /\ handle' = Some(file_idx)
    /\ open_files' = open_files \cup {file_idx}
    /\ current_entry' = IF op = "analyze_slow_logs" THEN EmptyEntry ELSE current_entry
    /\ pcMain' = "read"
    /\ UNCHANGED <<op, granularity, workVars, tpVars, gateVars, calls, returned,
                   normVars, pctVars, catVars, exVars, corrVars, wpVars, resVars,
                   slow_requests, plugin_entry_counts, cutoff_date, folded, slow_scripts,
                   top_n, top_slow_scripts, file_idx, lines_read, recorded, warnings,
                   raised, function_counts, plugin_function_counts>>

\* lines 935-936, 1176-1177 and 1597-1598: the handler of the per-file try; only
\* _load_access_log_timing prints nothing
Warned(w) == IF op = "_load_access_log_timing" THEN w ELSE Append(w, file_idx)

\* lines 893-897: open or gzip.open raises
OpenFails ==
    /\ op \in PassOps
    /\ pcMain = "open"
    /\ raised' = raised \cup {file_idx}
    /\ warnings' = Warned(warnings)
    /\ pcMain' = "next_file"
    /\ UNCHANGED <<op, granularity, workVars, tpVars, slowVars, gateVars, calls, returned,
                   normVars, pctVars, catVars, exVars, corrVars, wpVars, resVars,
                   file_idx, handle, open_files, lines_read, recorded,
                   function_counts, plugin_function_counts>>

\* line 901 (1153, 1562): reading the next line raises, for example on a truncated
\* .gz file; control goes to the handler, past f.close()
ReadFails ==
    /\ op \in PassOps
    /\ pcMain = "read"
    /\ raised' = raised \cup {file_idx}
    /\ warnings' = Warned(warnings)
    /\ pcMain' = "next_file"
    /\ UNCHANGED <<op, granularity, workVars, tpVars, slowVars, gateVars, calls, returned,
                   normVars, pctVars, catVars, exVars, corrVars, wpVars, resVars,
                   file_idx, handle, open_files, lines_read, recorded,
                   function_counts, plugin_function_counts>>

\* lines 901-931: one line of a slow log
ReadSlowLine ==
    /\ op = "analyze_slow_logs"
    /\ pcMain = "read"
    /\ Len(lines_read) < MaxLines
    /\ \E l \in SlowLines :
         LET header == l.date # None
             accepted == header /\ EntryRecorded(current_entry, cutoff_date)
             t == TalliesAfterLine(Tallies(source_counts, plugin_trace_hits, theme_counts), l)
         IN  /\ lines_read' = Append(lines_read, <<file_idx, l>>)
             /\ recorded' = IF header THEN Append(recorded, <<file_idx, current_entry>>)
                            ELSE recorded
             /\ slow_requests' = IF accepted
                                 THEN record_entry_requests(slow_requests, current_entry)
                                 ELSE slow_requests
             /\ plugin_entry_counts' = IF accepted
                                       THEN record_entry_plugins(plugin_entry_counts, current_entry)
                                       ELSE plugin_entry_counts
             /\ current_entry' = EntryWithFields(EntryAfterHeader(current_entry, l), l)
             /\ source_counts' = t.source_counts
             /\ plugin_trace_hits' = t.plugin_trace_hits
             /\ theme_counts' = t.theme_counts
             /\ function_counts' = IF l.func # None
                                   THEN Incremented(function_counts, l.func[1])
                                   ELSE function_counts
             /\ plugin_function_counts' = PluginFunctionsAfterLine(plugin_function_counts, l)
    /\ UNCHANGED <<op, granularity, pcMain, workVars, tpVars, gateVars, calls, returned,
                   normVars, pctVars, path, exVars, corrVars, wpVars, resVars,
                   cutoff_date, folded, slow_scripts, top_n, top_slow_scripts,
                   file_idx, handle, open_files, warnings, raised>>

\* lines 933-934 (1175, 1596): the file is exhausted; the slow-log pass hands its open
\* entry to record_entry; f.close()
EndOfFile ==
    /\ op \in PassOps
    /\ pcMain = "read"
    /\ IF op = "analyze_slow_logs"
       THEN /\ recorded' = Append(recorded, <<file_idx, current_entry>>)
            /\ IF EntryRecorded(current_entry, cutoff_date)
               THEN /\ slow_requests' = record_entry_requests(slow_requests, current_entry)
                    /\ plugin_entry_counts' =
                          record_entry_plugins(plugin_entry_counts, current_entry)
               ELSE UNCHANGED <<slow_requests, plugin_entry_counts>>
       ELSE UNCHANGED <<recorded, slow_requests, plugin_entry_counts>>
    /\ open_files' = open_files \ {file_idx}
    /\ pcMain' = "next_file"
    /\ UNCHANGED <<op, granularity, workVars, tpVars, gateVars, calls, returned,
                   normVars, pctVars, catVars, exVars, corrVars, wpVars, resVars,
                   cutoff_date, current_entry, folded, slow_scripts, top_n,
                   top_slow_scripts, file_idx, handle, lines_read, warnings, raised,
                   function_counts, plugin_function_counts>>

\* the loop over the files is left and the pass goes on to build its result; the
\* local f is not used again
LeaveFileLoop ==
    /\ op \in PassOps
    /\ pcMain = "next_file"
    /\ file_idx = Len(LogFiles)
    /\ pcMain' = "done"
    /\ handle' = None
    /\ UNCHANGED <<op, granularity, workVars, tpVars, slowVars, gateVars, calls, returned,
                   normVars, pctVars, catVars, exVars, corrVars, wpVars, resVars,
                   file_idx, open_files, lines_read, recorded, warnings, raised,
                   function_counts, plugin_function_counts>>

\* A handle that f no longer refers to may be closed by the runtime when it reclaims
\* the file object; when it does so, if at all, is up to the interpreter.
Finalize ==
    /\ op \in PassOps
    /\ \E i \in open_files :
         /\ handle # Some(i)
         /\ open_files' = open_files \ {i}
    /\ UNCHANGED <<op, granularity, capVars, tpVars, slowVars, gateVars, calls, returned,
                   normVars, pctVars, catVars, exVars, corrVars, wpVars, resVars,
                   file_idx, handle, lines_read, recorded, warnings, raised,
                   function_counts, plugin_function_counts>>

\* An access-log line is its timestamp (_parse_log_datetime) and the rest of it.
AccessLine(date, body) == [date |-> date, body |-> body]

LineOf(request, mid) ==
    [request |-> request, mid |-> mid, trailing |-> None, tail |-> <<>>]

GetIndex ==
    <<Tok("method", <<0, 1>>, "GET"), Tok("phpq", <<0, 1>>, "/index.php"),
      Tok("word", <<0, 1>>, "HTTP/1.1")>>

\* a request of /index.php taking 340ms, the same older than the cutoff, a line with
\* nothing to extract, a line with a percentage only, a line with 150mb only
AccessLines ==
    {AccessLine(Some(7), LineOf(Some(GetIndex), <<Tok("unit", <<340, 1>>, "ms")>>)),
     AccessLine(Some(6), LineOf(Some(GetIndex), <<Tok("unit", <<340, 1>>, "ms")>>)),
     AccessLine(None, LineOf(None, <<Tok("word", <<0, 1>>, "-")>>)),
     AccessLine(None, LineOf(None, <<Tok("pct", <<15, 1>>, "")>>)),
     AccessLine(None, LineOf(None, <<Tok("unit", <<150, 1>>, "mb")>>))}

\* lines 1154-1160 and 1563-1569: the line is older than the cutoff or yields nothing
Skipped(l, metrics) ==
    \/ l.date # None /\ l.date[1] < cutoff_date
    \/ metrics = NoSignal

FracAdd(a, b) == Frac(a[1] * b[2] + b[1] * a[2], a[2] * b[2])

\* lines 1167-1172: the statistics of the script after one more request, in seconds
script_stats_after(stats, script, t) ==
    LET known == \E i \in 1..Len(stats) : stats[i].script = script
        base == IF known THEN stats
                ELSE Append(stats, [script |-> script, count |-> 0,
                                    total_time |-> <<0, 1>>, max_time |-> <<0, 1>>])
        i == CHOOSE j \in 1..Len(base) : base[j].script = script
    IN  [base EXCEPT ![i] = [@ EXCEPT !.count = @ + 1,
                                      !.total_time = FracAdd(@, t),
                                      !.max_time = IF FracLess(@, t) THEN t ELSE @]]

\* lines 1153-1173: one line of an access log in _load_access_log_timing; the scripts
\* of AccessLines carry no query, so script.split('?')[0] returns them whole
ReadTimingLine ==
    /\ op = "_load_access_log_timing"
    /\ pcMain = "read"
    /\ Len(lines_read) < MaxLines
    /\ \E l \in AccessLines : \E metrics \in {extract_access_metrics(l.body)} :
         /\ lines_read' = Append(lines_read, <<file_idx, l>>)
         /\ script_stats' =
               IF \/ Skipped(l, metrics)
                  \/ metrics.script = None
                  \/ metrics.request_time_sec = None
                  \/ FracLeq(metrics.request_time_sec[1], <<0, 1>>)
               THEN script_stats
               ELSE script_stats_after(script_stats, metrics.script[1],
                                       metrics.request_time_sec[1])
    /\ UNCHANGED <<op, granularity, capVars, tpVars, slowVars, gateVars, calls, returned,
                   normVars, pctVars, catVars, exVars, script_index, wpVars, resVars,
                   file_idx, handle, open_files, recorded, warnings, raised,
                   function_counts, plugin_function_counts>>

\* lines 1585-1590: high_memory_scripts[script] after a request using more than 100 MB
high_memory_after(hms, script, mb) ==
    LET old == IF script \in DOMAIN hms THEN hms[script]
               ELSE [count |-> 0, total_memory |-> <<0, 1>>, max_memory |-> <<0, 1>>]
        new == [count |-> old.count + 1,
                total_memory |-> FracAdd(old.total_memory, mb),
                max_memory |-> IF FracLess(old.max_memory, mb) THEN mb ELSE old.max_memory]
    IN  [k \in DOMAIN hms \cup {script} |-> IF k = script THEN new ELSE hms[k]]

\* lines 1562-1594: one line of an access log in analyze_php_resources
ReadResourceLine ==
    /\ op = "analyze_php_resources"
    /\ pcMain = "read"
    /\ Len(lines_read) < MaxLines
    /\ \E l \in AccessLines : \E metrics \in {extract_access_metrics(l.body)} :
         /\ lines_read' = Append(lines_read, <<file_idx, l>>)
         /\ IF Skipped(l, metrics)
            THEN UNCHANGED <<parsed_entries, resVars>>
            ELSE LET t == metrics.request_time_sec
                     mb == metrics.memory_mb
                     cpu == metrics.cpu_percent
                     script == IF metrics.script = None THEN "unknown" ELSE metrics.script[1]
                     kept == mb # None /\ FracLess(<<0, 1>>, mb[1]) /\ FracLess(mb[1], <<50000, 1>>)
                 IN  /\ parsed_entries' = parsed_entries + 1
                     /\ request_times' = IF t # None /\ FracLess(t[1], <<300, 1>>)
                                         THEN Append(request_times, t[1]) ELSE request_times
                     /\ memory_usage' = IF kept THEN Append(memory_usage, mb[1])
                                        ELSE memory_usage
                     /\ high_memory_scripts' =
                           IF kept /\ FracLess(<<100, 1>>, mb[1])
                           THEN high_memory_after(high_memory_scripts, script, mb[1])
                           ELSE high_memory_scripts
                     /\ cpu_times' = IF cpu # None /\ FracLeq(<<0, 1>>, cpu[1])
                                        /\ FracLess(cpu[1], <<1000, 1>>)
                                     THEN Append(cpu_times, cpu[1]) ELSE cpu_times
    /\ UNCHANGED <<op, granularity, capVars, tpVars, slowVars, gateVars, calls, returned,
                   normVars, pctVars, catVars, line, corrVars, wpVars,
                   file_idx, handle, open_files, recorded, warnings, raised,
                   function_counts, plugin_function_counts>>

----------------------------------------------------------------------------
(* The binary64 arithmetic of parse_duration (lines 804-814) and of the        *)
(* per-script sums of record_entry (lines 876-878)                             *)

\* A finite float that is not negative is [bits, exp]: the natural number with the
\* binary digits bits, least significant first, times 2^exp. bits is empty for 0.0
\* and begins and ends with 1 otherwise. The durations of a log are far from the
\* largest and the smallest binary64, so the exponent is not limited.
MantissaBits == 53

RECURSIVE BitsOf(_)
BitsOf(n) == IF n = 0 THEN <<>> ELSE <<n % 2>> \o BitsOf(n \div 2)

\* b without its leading zeros
Trim(b) ==
    LET ones == {i \in 1..Len(b) : b[i] = 1}
    IN  IF ones = {} THEN <<>> ELSE SubSeq(b, 1, LastIn(ones))

BitAt(b, i) == IF i <= Len(b) THEN b[i] ELSE 0

\* the digits lo..hi of a + b + c and the carry out of them
RECURSIVE AddRange(_, _, _, _, _)
AddRange(a, b, lo, hi, c) ==
    IF lo = hi
    THEN [s |-> <<(BitAt(a, lo) + BitAt(b, lo) + c) % 2>>,
          c |-> (BitAt(a, lo) + BitAt(b, lo) + c) \div 2]
    ELSE LET low == AddRange(a, b, lo, (lo + hi) \div 2, c)
             high == AddRange(a, b, (lo + hi) \div 2 + 1, hi, low.c)
         IN  [s |-> low.s \o high.s, c |-> high.c]

AddBits(a, b) ==
    IF a = <<>> /\ b = <<>>
    THEN <<>>
    ELSE LET r == AddRange(a, b, 1, Max(Len(a), Len(b)), 0)
         IN  Trim(Append(r.s, r.c))

ShiftLeft(b, k) == IF b = <<>> THEN b ELSE [i \in 1..k |-> 0] \o b

\* a < b for two naturals without leading zeros
LessBits(a, b) ==
    \/ Len(a) < Len(b)
    \/ /\ Len(a) = Len(b)
       /\ \E i \in 1..Len(a) :
             /\ a[i] < b[i]
             /\ \A j \in (i + 1)..Len(a) : a[j] = b[j]

\* b * 2^e with an odd b, or zero
Canon(b, e) ==
    LET ones == {i \in 1..Len(b) : b[i] = 1}
        first == CHOOSE i \in ones : \A j \in ones : i <= j
    IN  IF ones = {} THEN [bits |-> <<>>, exp |-> 0]
        ELSE [bits |-> SubSeq(b, first, LastIn(ones)), exp |-> e + first - 1]

\* round to nearest, ties to even: b * 2^e, plus less than one unit of 2^e when
\* sticky, to MantissaBits significant bits
RoundNearestEven(b, e, sticky) ==
    IF Len(b) <= MantissaBits
    THEN Canon(b, e)
    ELSE LET k == Len(b) - MantissaBits
             kept == SubSeq(b, k + 1, Len(b))
             rest == sticky \/ \E i \in 1..(k - 1) : b[i] = 1
             up == b[k] = 1 /\ (rest \/ kept[1] = 1)
         IN  Canon(IF up THEN AddBits(kept, <<1>>) ELSE kept, e + k)

\* the exact sum of two floats, not rounded
ExactSum(x, y) ==
    LET e == Min(x.exp, y.exp)
    IN  [bits |-> AddBits(ShiftLeft(x.bits, x.exp - e), ShiftLeft(y.bits, y.exp - e)),
         exp |-> e]

\* x + y
FloatAdd(x, y) == RoundNearestEven(ExactSum(x, y).bits, ExactSum(x, y).exp, FALSE)

\* quotient digits hi..lo (the most significant first) and remainder of the natural b
\* by the small natural n, given the remainder r of the digits above hi
RECURSIVE DivRange(_, _, _, _, _)
DivRange(b, lo, hi, n, r) ==
    IF lo = hi
    THEN [q |-> <<(2 * r + b[lo]) \div n>>, r |-> (2 * r + b[lo]) % n]
    ELSE LET high == DivRange(b, (lo + hi) \div 2 + 1, hi, n, r)
             low == DivRange(b, lo, (lo + hi) \div 2, n, high.r)
         IN  [q |-> high.q \o low.q, r |-> low.r]

Reversed(b) == [i \in 1..Len(b) |-> b[Len(b) + 1 - i]]

\* x / n for an int n > 0
FloatDivInt(x, n) ==
    IF x.bits = <<>>
    THEN x
    ELSE LET k == MantissaBits + 2 + Len(BitsOf(n))
             d == DivRange(ShiftLeft(x.bits, k), 1, Len(x.bits) + k, n, 0)
         IN  RoundNearestEven(Trim(Reversed(d.q)), x.exp - k, d.r # 0)

\* x <= y
FloatLeq(x, y) ==
    LET e == Min(x.exp, y.exp)
    IN  ~ LessBits(ShiftLeft(y.bits, y.exp - e), ShiftLeft(x.bits, x.exp - e))

\* float(n) for an int below 2^53
FloatOfInt(n) == Canon(BitsOf(n), 0)

FloatZero == FloatOfInt(0)

\* max(x, y) of line 878
FloatMax(x, y) == IF FloatLeq(y, x) THEN x ELSE y

\* lines 809-811: float(match.group(1)) for a run of digits, divided by 1000 when the
\* unit is ms or msec
parse_duration_float(digits, u) ==
    IF u \in {"ms", "msec"}
    THEN FloatDivInt(FloatOfInt(digits), 1000)
    ELSE FloatOfInt(digits)

\* the durations written in the log
DurationTexts == {<<100, "ms">>, <<200, "ms">>, <<300, "msec">>, <<2, "s">>}

\* lines 771-773
NewScriptTimes(script) ==
    [script |-> script, count |-> 0, timed_count |-> 0,
     total_time |-> FloatZero, max_time |-> FloatZero]

\* max_time overwritten by the latest duration
record_entry_times_latest(sr, script, duration) ==
    LET base == IF HasScript(sr, script) THEN sr ELSE Append(sr, NewScriptTimes(script))
        i == ScriptIndex(base, script)
    IN  [base EXCEPT ![i] =
            IF duration = None
            THEN [@ EXCEPT !.count = @ + 1]
            ELSE [@ EXCEPT !.count = @ + 1,
                           !.timed_count = @ + 1,
                           !.total_time = FloatAdd(@, duration[1]),
                           !.max_time = duration[1]]]

\* lines 873-879 with the sums in binary64
record_entry_times(sr, script, duration) ==
    LET base == IF HasScript(sr, script) THEN sr ELSE Append(sr, NewScriptTimes(script))
        i == ScriptIndex(base, script)
    IN  [base EXCEPT ![i] =
            IF duration = None
            THEN [@ EXCEPT !.count = @ + 1]
            ELSE [@ EXCEPT !.count = @ + 1,
                           !.timed_count = @ + 1,
                           !.total_time = FloatAdd(@, duration[1]),
                           !.max_time = FloatMax(@, duration[1])]]

\* line 946: total_time / timed_count
avg_time(data) == FloatDivInt(data.total_time, data.timed_count)

\* record_entry admits an entry of one of the scripts, with or without a duration
RecordTimedEntry ==
    /\ op = "analyze_slow_logs"
    /\ pcMain = "times"
    /\ SumSeq([i \in 1..Len(slow_requests) |-> slow_requests[i].count]) < MaxTimed
    /\ \E script \in Scripts : \E d \in DurationTexts \cup {None} :
          slow_requests' =
              record_entry_times(slow_requests, script,
                                 IF d = None THEN None
                                 ELSE Some(parse_duration_float(d[1], d[2])))
    /\ UNCHANGED <<op, granularity, capVars, tpVars, gateVars, libVars,
                   plugin_entry_counts, cutoff_date, current_entry, folded, slow_scripts,
                   top_n, top_slow_scripts>>

----------------------------------------------------------------------------
(* Specifications *)

\* the helper functions are not under study
NormIdle == value = <<0, 1>> /\ unit = None
PctIdle == values = <<>> /\ percentile = 0
CatIdle ==
    /\ path = [abs |-> FALSE, segs |-> <<>>]
    /\ source_counts = <<>>
    /\ plugin_trace_hits = <<>>
    /\ theme_counts = <<>>
ExIdle == line = <<>> /\ parsed_entries = 0
CorrIdle == script_stats = <<>> /\ script_index = <<>>
WpIdle == wp_outcome = None
PassIdle ==
    /\ file_idx = 0
    /\ handle = None
    /\ open_files = {}
    /\ lines_read = <<>>
    /\ recorded = <<>>
    /\ warnings = <<>>
    /\ raised = {}
    /\ function_counts = <<>>
    /\ plugin_function_counts = <<>>
ResIdle ==
    /\ request_times = <<>>
    /\ memory_usage = <<>>
    /\ cpu_times = <<>>
    /\ high_memory_scripts = <<>>
ExtIdle == WpIdle /\ PassIdle /\ ResIdle
LibIdle ==
    /\ calls = 0
    /\ returned = None
    /\ NormIdle
    /\ PctIdle
    /\ CatIdle
    /\ ExIdle
    /\ CorrIdle
    /\ ExtIdle

SlowIdle ==
    /\ slow_requests = <<>>
    /\ plugin_entry_counts = <<>>
    /\ cutoff_date = 0
    /\ current_entry = EmptyEntry
    /\ folded = <<>>
    /\ slow_scripts = <<>>
    /\ top_n = 0
    /\ top_slow_scripts = <<>>

LoadInit ==
    /\ pc = [w \in Threads |-> "idle"]
    /\ resp = [w \in Threads |-> "none"]
    /\ req_time = [w \in Threads |-> 0]
    /\ tmp = [w \in Threads |-> 0]
    /\ lock = 0
    /\ now = 0
    /\ start_time = 0
    /\ search_start = 0
    /\ levelIdx = 1
    /\ spawned = 0
    /\ success_count = 0
    /\ error_count = 0
    /\ response_times = <<>>
    /\ request_count = 0
    /\ errors = 0
    /\ attempts = 0
    /\ ok_attempts = 0
    /\ max_concurrent = 0
    /\ successful_levels = <<>>
    /\ tested = <<>>
    /\ outcomes = <<>>
    /\ broke = "none"
    /\ success_rate = None
    /\ avg_response_time = None

\* estimate_concurrent_users(test_duration) or measure_throughput() is entered
Init ==
    /\ LibIdle
    /\ granularity = "thread"
    /\ LoadInit
    /\ SlowIdle
    /\ \/ /\ op = "estimate_concurrent_users"
          /\ pcMain = "level_start"
          /\ test_duration \in TestDurations
       \/ /\ op = "measure_throughput"
          /\ pcMain = "tp_start"
          /\ test_duration = 0

Next ==
    \/ LevelStart
    \/ Spawn
    \/ Join
    \/ Gate
    \/ Budget
    \/ Tick
    \/ \E w \in Threads : WCheck(w)
    \/ \E w \in Threads : WResponse(w)
    \/ \E w \in Threads : WAcquire(w)
    \/ \E w \in Threads : WStore(w)
    \/ \E w \in Threads : WAppend(w)
    \/ TpStart
    \/ TpSpawn
    \/ TpJoin
    \/ \E w \in Threads : TpCheck(w)
    \/ \E w \in Threads : TpResponse(w)
    \/ \E w \in Threads : TpAcquire(w)
    \/ \E w \in Threads : TpStore(w)

Spec == Init /\ [][Next]_vars

\* estimate_concurrent_users(test_duration) is entered; each level runs as one step
InitLadder ==
    /\ LibIdle
    /\ granularity = "level"
    /\ LoadInit
    /\ SlowIdle
    /\ op = "estimate_concurrent_users"
    /\ pcMain = "level_start"
    /\ test_duration \in TestDurations

NextLadder ==
    \/ LevelStart
    \/ RunLevel
    \/ Gate
    \/ Budget

SpecLadder == InitLadder /\ [][NextLadder]_vars

\* analyze_slow_logs(days, top_n) has set up its tallies and is about to read entries
InitSlow ==
    /\ LibIdle
    /\ granularity = "thread"
    /\ LoadInit
    /\ op = "analyze_slow_logs"
    /\ pcMain = "fold"
    /\ test_duration = 0
    /\ slow_requests = <<>>
    /\ plugin_entry_counts = <<>>
    /\ cutoff_date = CutoffDate
    /\ current_entry = EmptyEntry
    /\ folded = <<>>
    /\ slow_scripts = <<>>
    /\ top_n \in TopNs
    /\ top_slow_scripts = <<>>

NextSlow ==
    \/ RecordEntry
    \/ Emit

SpecSlow == InitSlow /\ [][NextSlow]_vars

\* no load test and no log analysis is running: a helper is called on its own
HelperInit ==
    /\ granularity = "thread"
    /\ LoadInit
    /\ SlowIdle
    /\ pcMain = "done"
    /\ test_duration = 0
    /\ calls = 0
    /\ returned = None

\* one of the two normalizers is called with a value and an optional unit
InitNorm ==
    /\ HelperInit
    /\ ExtIdle
    /\ PctIdle
    /\ CatIdle
    /\ ExIdle
    /\ CorrIdle
    /\ op \in {"_normalize_time_seconds", "_normalize_memory_mb"}
    /\ value \in NormValues
    /\ unit \in Units

NextNorm ==
    \/ NormalizeTime
    \/ NormalizeMemory

SpecNorm == InitNorm /\ [][NextNorm]_vars

\* _percentile is called with a list of samples and a percentile
InitPct ==
    /\ HelperInit
    /\ ExtIdle
    /\ NormIdle
    /\ CatIdle
    /\ ExIdle
    /\ CorrIdle
    /\ op = "_percentile"
    /\ percentile \in Percentiles
    /\ \E base \in SampleLists : \E k \in Scales :
          values = [i \in 1..Len(base) |-> k * base[i]]

NextPct == Percentile

SpecPct == InitPct /\ [][NextPct]_vars

\* categorize_path is called on a script or trace path, after none or one earlier call
InitCat ==
    /\ HelperInit
    /\ ExtIdle
    /\ NormIdle
    /\ PctIdle
    /\ ExIdle
    /\ CorrIdle
    /\ op = "categorize_path"
    /\ path \in Paths
    /\ \E t \in {NoTallies} \cup {categorize_path(NoTallies, e) : e \in EarlierPaths} :
          /\ source_counts = t.source_counts
          /\ plugin_trace_hits = t.plugin_trace_hits
          /\ theme_counts = t.theme_counts

NextCat == CategorizePath

SpecCat == InitCat /\ [][NextCat]_vars

\* analyze_php_resources reads one line of an access log
InitExtract ==
    /\ HelperInit
    /\ ExtIdle
    /\ NormIdle
    /\ PctIdle
    /\ CatIdle
    /\ CorrIdle
    /\ op = "_extract_access_metrics"
    /\ \E m \in TokenSeqs(MaxTokens) : line \in Lines(m)
    /\ parsed_entries = 0

NextExtract == ExtractLine

SpecExtract == InitExtract /\ [][NextExtract]_vars

\* analyze_slow_logs has ranked the scripts of its slow-log entries (one timed entry
\* per script here) and the access logs have been read into script_stats
InitCorr ==
    /\ granularity = "thread"
    /\ LoadInit
    /\ calls = 0
    /\ returned = None
    /\ NormIdle
    /\ PctIdle
    /\ CatIdle
    /\ ExIdle
    /\ ExtIdle
    /\ op = "analyze_slow_logs"
    /\ pcMain = "access"
    /\ test_duration = 0
    /\ cutoff_date = CutoffDate
    /\ plugin_entry_counts = <<>>
    /\ top_n \in TopNs
    /\ \E scripts \in DistinctSeqs(SlowPaths, MaxSlowScripts) :
          LET es == [i \in 1..Len(scripts) |->
                        [date |-> None, script |-> Some(scripts[i]),
                         duration |-> Some(2000), plugins |-> {}]]
              built == [i \in 1..Len(es) |->
                           ScriptRecord(FoldEntries(es)[i], 2000) @@ NoAccess]
          IN  /\ slow_requests = FoldEntries(es)
              /\ folded = [i \in 1..Len(es) |-> <<scripts[i], Some(2000)>>]
              /\ current_entry = IF es = <<>> THEN EmptyEntry ELSE es[Len(es)]
              /\ slow_scripts = SortRanked(built)
              /\ top_slow_scripts = SubSeq(SortRanked(built), 1, Min(top_n, Len(built)))
    /\ \E scripts \in DistinctSeqs(AccessPaths, MaxAccessScripts) :
          script_stats = [i \in 1..Len(scripts) |-> AccessStatsAt(scripts[i], i)]
    /\ script_index = <<>>

NextCorr ==
    \/ LoadAccessLogTiming
    \/ Correlate

SpecCorr == InitCorr /\ [][NextCorr]_vars

\* run_wp_command is called and subprocess.run ends in one of its ways
InitWp ==
    /\ HelperInit
    /\ NormIdle
    /\ PctIdle
    /\ CatIdle
    /\ ExIdle
    /\ CorrIdle
    /\ PassIdle
    /\ ResIdle
    /\ op = "run_wp_command"
    /\ \E o \in WpOutcomes : wp_outcome = Some(o)

NextWp == RunWpCommand

SpecWp == InitWp /\ [][NextWp]_vars

\* one of the three log passes has found its files and set up its tallies
InitPass ==
    /\ granularity = "thread"
    /\ LoadInit
    /\ calls = 0
    /\ returned = None
    /\ NormIdle
    /\ PctIdle
    /\ CatIdle
    /\ ExIdle
    /\ CorrIdle
    /\ WpIdle
    /\ PassIdle
    /\ ResIdle
    /\ op \in PassOps
    /\ pcMain = "next_file"
    /\ test_duration = 0
    /\ slow_requests = <<>>
    /\ plugin_entry_counts = <<>>
    /\ cutoff_date = CutoffDate
    /\ current_entry = EmptyEntry
    /\ folded = <<>>
    /\ slow_scripts = <<>>
    /\ top_n = 0
    /\ top_slow_scripts = <<>>

NextPass ==
    \/ NextFile
    \/ OpenFile
    \/ OpenFails
    \/ ReadSlowLine
    \/ ReadTimingLine
    \/ ReadResourceLine
    \/ ReadFails
    \/ EndOfFile
    \/ LeaveFileLoop
    \/ Finalize

SpecPass == InitPass /\ [][NextPass]_vars

\* the fold of record_entry with the durations as the interpreter holds them
InitTimes ==
    /\ LibIdle
    /\ granularity = "thread"
    /\ LoadInit
    /\ SlowIdle
    /\ op = "analyze_slow_logs"
    /\ pcMain = "times"
    /\ test_duration = 0

NextTimes == RecordTimedEntry

SpecTimes == InitTimes /\ [][NextTimes]_vars

\* estimate_concurrent_users(test_duration) is entered
InitLive ==
    /\ Init
    /\ op = "estimate_concurrent_users"

NextLive ==
    \/ LevelStart
    \/ Spawn
    \/ Join
    \/ Gate
    \/ Budget
    \/ Tick
    \/ \E w \in Threads : WCheck(w)
    \/ \E w \in Threads : WResponse(w)
    \/ \E w \in Threads : WAcquire(w)
    \/ \E w \in Threads : WStore(w)
    \/ \E w \in Threads : WAppend(w)

\* the next step of the calling thread
MainStep == LevelStart \/ Spawn \/ Join \/ Gate \/ Budget

\* the next step of worker w; requests.get returns or raises (timeout=15, line 1904)
WorkerStep(w) == WCheck(w) \/ WResponse(w) \/ WAcquire(w) \/ WStore(w) \/ WAppend(w)

\* Every thread that can take a step is scheduled, and the clock advances.
Fairness ==
    /\ WF_vars(MainStep)
    /\ WF_vars(Tick)
    /\ \A w \in Threads : WF_vars(WorkerStep(w))

SpecLive == InitLive /\ [][NextLive]_vars /\ Fairness

----------------------------------------------------------------------------
(* Properties of the load search (estimate_concurrent_users, measure_throughput) *)

\* C1: the ladder levels are tested in ascending order from 5 without skipping; no
\* level is tested after a level whose statistics miss a threshold, and the search is
\* over once one did; max_concurrent is the concurrency of the last level that met
\* the thresholds, 0 when none did.
C1_StopsAtFirstFailingLevel ==
    LET passed == {i \in 1..Len(outcomes) : outcomes[i]}
    IN  /\ Len(tested) <= Len(Ladder)
        /\ \A i \in 1..Len(tested) : tested[i] = Ladder[i]
        /\ Len(outcomes) <= Len(tested)
        /\ \A i \in 1..Len(outcomes) :
              ~ outcomes[i] => (i = Len(tested) /\ pcMain = "done")
        /\ max_concurrent =
              IF passed = {} THEN 0
              ELSE Ladder[CHOOSE i \in passed : \A j \in passed : j <= i]

\* C1 witness: levels 5 and 10 passed, 20 failed, the result is 10 and 30 was not tested
C1_Witness ==
    /\ pcMain = "done"
    /\ tested = <<5, 10, 20>>
    /\ outcomes = <<TRUE, TRUE, FALSE>>
    /\ max_concurrent = 10

\* C2: the gate step appends the level to successful_levels and makes it the maximum
\* exactly when success_rate > 95 and avg_response_ms < 5000 (a level with no
\* completed request has rate 0); in every other case it ends the search and leaves
\* successful_levels and max_concurrent as they were.
C2_AcceptedIffBothThresholds ==
    [][pcMain = "gate" =>
         LET total == success_count + error_count
             n == Len(response_times)
             meets == /\ total > 0
                      /\ 100 * success_count > 95 * total
                      /\ (n > 0 => SumSeq(response_times) < 5000 * n)
             accepted == /\ Len(successful_levels') = Len(successful_levels) + 1
                         /\ successful_levels'[Len(successful_levels')].concurrent_users
                               = concurrent_level
                         /\ max_concurrent' = concurrent_level
                         /\ pcMain' = "budget"
             rejected == /\ successful_levels' = successful_levels
                         /\ max_concurrent' = max_concurrent
                         /\ pcMain' = "done"
         IN  (meets => accepted) /\ (~ meets => rejected)]_vars

\* C2 witness: a level with success_rate exactly 95 (19 of 20) and fast responses
\* has ended the search
C2_Witness ==
    /\ pcMain = "done"
    /\ broke = "gate"
    /\ success_count = 19
    /\ error_count = 1
    /\ SumSeq(response_times) < 5000 * Len(response_times)

\* C3: at most one worker is inside a with-lock block and it is the holder of the
\* lock; every completed request is counted exactly once as soon as its worker has
\* left the block (no increment is lost), in both load tests; and whenever the lock
\* is free the number of samples equals success_count.
C3_LockProtectsCounters ==
    LET inBlock == {w \in Threads : pc[w] \in {"store", "append"}}
        uncounted == {w \in Threads : pc[w] \in {"acquire", "store"}}
    IN  /\ Cardinality(inBlock) <= 1
        /\ \A w \in inBlock : lock = w
        /\ op = "estimate_concurrent_users" =>
              /\ success_count + error_count + Cardinality(uncounted) = attempts
              /\ lock = 0 => Len(response_times) = success_count
        /\ op = "measure_throughput" =>
              request_count + errors + Cardinality(uncounted) = attempts

\* C3 witness: a worker waits for the lock while another worker is inside the block
C3_Witness ==
    /\ op = "estimate_concurrent_users"
    /\ \E v, w \in Threads : pc[v] = "store" /\ pc[w] = "acquire" /\ lock = v

\* C4: while the statistics and the gate of a level are computed, and while the
\* counters are reset for the next level, no worker thread is running; the counters
\* read by the gate hold exactly the requests completed since they were reset.
C4_GateAfterAllWorkersJoined ==
    op = "estimate_concurrent_users" =>
        /\ pcMain \in {"gate", "budget", "level_start", "done"} =>
              \A w \in Threads : pc[w] \in {"idle", "exit"}
        /\ pcMain \in {"gate", "budget", "done"} =>
              success_count + error_count = attempts

\* C4 witness: the gate of the second level is reached with two completed requests
C4_Witness ==
    /\ op = "estimate_concurrent_users"
    /\ pcMain = "gate"
    /\ levelIdx = 2
    /\ attempts = 2
    /\ \A w \in Threads : pc[w] = "exit"

\* C5: no ladder level is started once the time elapsed since the search began
\* exceeds test_duration (start_time is the time at which the current level started).
C5_NoLevelStartsPastBudget == start_time - search_start <= test_duration

\* C6 as stated: when a failed gate ended the search, the failing level is among the
\* retained levels.
C6_FailingLevelRetained ==
    broke = "gate" =>
        /\ Len(successful_levels) = Len(tested)
        /\ successful_levels[Len(tested)].concurrent_users = tested[Len(tested)]

\* C6 amended: the retained levels are exactly the levels that passed the gate, in
\* ladder order, each with its concurrency and its success rate and average response
\* time rounded to two decimals; the failing level that ended the search is not
\* retained.
C6_OnlyPassingLevelsRetained ==
    LET passed == {i \in 1..Len(outcomes) : outcomes[i]}
        k == Len(successful_levels)
        total == success_count + error_count
        n == Len(response_times)
    IN  /\ k = Cardinality(passed)
        /\ \A i \in 1..k : i \in passed /\ successful_levels[i].concurrent_users = Ladder[i]
        /\ broke = "gate" =>
              /\ k = Len(tested) - 1
              /\ \A i \in 1..k : successful_levels[i].concurrent_users # tested[Len(tested)]
        /\ pcMain = "budget" =>
              /\ successful_levels[k].concurrent_users = concurrent_level
              /\ 2 * Abs(successful_levels[k].success_rate * total
                           - 100 * 100 * success_count) <= total
              /\ 2 * Abs(successful_levels[k].avg_response_ms * n
                           - 100 * SumSeq(response_times)) <= n

\* C6 witness: a failed gate ended the search after two accepted levels, one of them
\* with 20 successes in 21 requests (95.24 percent)
C6_Witness ==
    /\ pcMain = "done"
    /\ broke = "gate"
    /\ Len(tested) = 3
    /\ Len(successful_levels) = 2
    /\ successful_levels[2].success_rate = 9524
    /\ successful_levels[2].avg_response_ms = 30000

\* C7: every completed request is counted once, as a success when its status was 200
\* and as an error otherwise (other status or exception); a worker whose request
\* failed goes back to the loop condition instead of issuing the request again; the
\* denominator used by the gate contains the failed requests.
C7_EachAttemptCountedOnce ==
    /\ [](op = "estimate_concurrent_users" =>
            LET uncounted(sts) ==
                    Cardinality({w \in Threads :
                                    pc[w] \in {"acquire", "store"} /\ resp[w] \in sts})
            IN  /\ success_count + uncounted({"200"}) = ok_attempts
                /\ error_count + uncounted({"500", "exc"}) = attempts - ok_attempts
                /\ pcMain = "gate" => success_count + error_count = attempts)
    /\ [][\A w \in Threads :
            (op = "estimate_concurrent_users" /\ pc[w] = "store" /\ resp[w] # "200"
               /\ pc'[w] # "store") => pc'[w] = "loop"]_vars

\* C7 witness: a level is gated after one successful and one failed request
C7_Witness ==
    /\ op = "estimate_concurrent_users"
    /\ pcMain = "gate"
    /\ ok_attempts = 1
    /\ attempts = 2
    /\ success_count = 1
    /\ error_count = 1

----------------------------------------------------------------------------
(* Properties of the slow-log fold (analyze_slow_logs) *)

\* C8 as stated: the average read out of every script with timed entries is exactly
\* total_time / timed_count.
C8_AverageIsExactQuotient ==
    \A i \in 1..Len(slow_scripts) :
        slow_scripts[i].timed_count > 0 =>
            slow_scripts[i].avg_time[1] * slow_scripts[i].timed_count
                = slow_scripts[i].total_time[1]

\* C8 amended: for every script, count is the number of recorded entries, timed_count
\* the number of them with a duration, total_time the sum and max_time the largest of
\* their durations; the average read out is total_time / timed_count rounded to three
\* decimals of a second (absent when timed_count = 0).
C8_StatsMatchRecordedEntries ==
    LET mine(script) == {i \in 1..Len(folded) : folded[i][1] = script}
        timed(script) == {i \in mine(script) : folded[i][2] # None}
        RECURSIVE total(_)
        total(is) == IF is = {} THEN 0
                     ELSE LET i == CHOOSE x \in is : TRUE
                          IN  folded[i][2][1] + total(is \ {i})
        largest(is) == IF is = {} THEN 0
                       ELSE folded[CHOOSE i \in is :
                                      \A j \in is : folded[j][2][1] <= folded[i][2][1]][2][1]
    IN  /\ \A script \in Scripts :
              IF mine(script) = {}
              THEN ~ HasScript(slow_requests, script)
              ELSE /\ HasScript(slow_requests, script)
                   /\ LET data == slow_requests[ScriptIndex(slow_requests, script)]
                      IN  /\ data.count = Cardinality(mine(script))
                          /\ data.timed_count = Cardinality(timed(script))
                          /\ data.total_time = total(timed(script))
                          /\ data.max_time = largest(timed(script))
        /\ pcMain = "done" =>
              /\ Len(slow_scripts) = Len(slow_requests)
              /\ \A i \in 1..Len(slow_scripts) :
                    LET r == slow_scripts[i]
                        data == slow_requests[ScriptIndex(slow_requests, r.script)]
                    IN  /\ r.count = data.count
                        /\ r.timed_count = data.timed_count
                        /\ IF data.timed_count = 0
                           THEN r.avg_time = None
                           ELSE /\ r.total_time = Some(data.total_time)
                                /\ r.max_time = Some(data.max_time)
                                /\ r.avg_time # None
                                /\ 2 * Abs(r.avg_time[1] * data.timed_count - data.total_time)
                                      <= data.timed_count

\* C8 witness: cron.php with durations 2.0 s, 4.0 s and one entry without duration
C8_Witness ==
    /\ pcMain = "done"
    /\ \E i \in 1..Len(slow_scripts) :
          /\ slow_scripts[i].script = "cron.php"
          /\ slow_scripts[i].count = 3
          /\ slow_scripts[i].timed_count = 2
          /\ slow_scripts[i].total_time = Some(6000)
          /\ slow_scripts[i].max_time = Some(4000)
          /\ slow_scripts[i].avg_time = Some(3000)

\* C9: in every state of the fold and in the emitted records, count >= timed_count
C9_CountAtLeastTimedCount ==
    /\ \A i \in 1..Len(slow_requests) :
          slow_requests[i].count >= slow_requests[i].timed_count
    /\ \A i \in 1..Len(slow_scripts) :
          slow_scripts[i].count >= slow_scripts[i].timed_count
    /\ \A i \in 1..Len(top_slow_scripts) :
          top_slow_scripts[i].count >= top_slow_scripts[i].timed_count

\* C9 witness: an emitted script with more entries than timed entries
C9_Witness ==
    /\ pcMain = "done"
    /\ \E i \in 1..Len(slow_scripts) :
          /\ slow_scripts[i].timed_count > 0
          /\ slow_scripts[i].count > slow_scripts[i].timed_count

\* C10: a call of record_entry adds the entry to the statistics of its script (count
\* grows by one, plugin_entry_counts grows by one for each of its plugins) exactly when
\* the entry has a script and its date is absent or not older than the cutoff; every
\* other call leaves slow_requests and plugin_entry_counts unchanged.
C10_RecordedIffScriptAndRecent ==
    [][(op = "analyze_slow_logs" /\ pcMain' = "fold") =>
         LET entry == current_entry'
             admitted == /\ entry.script # None
                         /\ (entry.date = None \/ entry.date[1] >= cutoff_date)
             before(script) == IF HasScript(slow_requests, script)
                               THEN slow_requests[ScriptIndex(slow_requests, script)].count
                               ELSE 0
             hits(pec, p) == IF p \in DOMAIN pec THEN pec[p] ELSE 0
         IN  IF admitted
             THEN /\ HasScript(slow_requests', entry.script[1])
                  /\ slow_requests'[ScriptIndex(slow_requests', entry.script[1])].count
                        = before(entry.script[1]) + 1
                  /\ \A p \in Plugins :
                        hits(plugin_entry_counts', p)
                           = hits(plugin_entry_counts, p) + (IF p \in entry.plugins THEN 1 ELSE 0)
             ELSE /\ slow_requests' = slow_requests
                  /\ plugin_entry_counts' = plugin_entry_counts]_vars

\* C10 witness: an entry dated exactly at the cutoff has been recorded as the first
\* entry of its script
C10_Witness ==
    /\ pcMain = "fold"
    /\ current_entry.script = Some("cron.php")
    /\ current_entry.date = Some(CutoffDate)
    /\ Len(slow_requests) = 1
    /\ slow_requests[1].script = "cron.php"
    /\ slow_requests[1].count = 1

----------------------------------------------------------------------------
(* Properties of the ranking (analyze_slow_logs, lines 956-967) *)

\* the total time a script is ranked by: 0 when it has no timed sample
RankedTotal(x) == IF x.timed_count > 0 THEN x.total_time[1] ELSE 0

\* C11: in the ranked slow-script list a script a stands before a script b whenever
\* a's total time (0 when it has no timed sample) is greater than b's, or the totals
\* are equal and a's count is greater; the list holds every recorded script once, and
\* the top list is its first min(top_n, n) elements.
C11_RankedByTotalThenCount ==
    (op = "analyze_slow_logs" /\ pcMain = "done") =>
        LET n == Len(slow_scripts)
        IN  /\ n = Len(slow_requests)
            /\ \A i \in 1..n : \E j \in 1..n : slow_scripts[j].script = slow_requests[i].script
            /\ \A i \in 1..n : \A j \in 1..n :
                  LET a == slow_scripts[i]
                      b == slow_scripts[j]
                  IN  (\/ RankedTotal(a) > RankedTotal(b)
                       \/ (RankedTotal(a) = RankedTotal(b) /\ a.count > b.count))
                      => i < j
            /\ Len(top_slow_scripts) = (IF top_n < n THEN top_n ELSE n)
            /\ \A i \in 1..Len(top_slow_scripts) : top_slow_scripts[i] = slow_scripts[i]

\* two scripts with equal totals were ranked by count, a script without timed samples
\* came last, and top_n cut the list
C11_Witness ==
    /\ op = "analyze_slow_logs"
    /\ pcMain = "done"
    /\ Len(slow_scripts) = 2
    /\ Len(top_slow_scripts) = 1
    /\ \/ /\ RankedTotal(slow_scripts[1]) = RankedTotal(slow_scripts[2])
          /\ slow_scripts[1].count > slow_scripts[2].count
          /\ slow_requests[1].script = slow_scripts[2].script
       \/ /\ slow_scripts[2].timed_count = 0
          /\ slow_requests[1].script = slow_scripts[2].script

----------------------------------------------------------------------------
(* Absent values for empty sample sets (lines 944-954, 1927-1929, 1501-1503) *)

\* C12 (as stated, for the capacity level): once the gate has computed the statistics
\* of a level in which no request produced a sample, avg_response_time is absent
\* (None), and success_rate is absent when no request completed; neither is 0.
C12_LevelStatsAbsentWithoutSamples ==
    (op = "estimate_concurrent_users" /\ Len(outcomes) = Len(tested) /\ tested # <<>>) =>
        /\ response_times = <<>> => avg_response_time = None
        /\ success_count + error_count = 0 => success_rate = None

\* C12 (slow log): a script without a timed sample is emitted with its average,
\* maximum and total absent, never 0
C12_SlowAverageAbsentWithoutSamples ==
    \A i \in 1..Len(slow_scripts) :
        slow_scripts[i].timed_count = 0 =>
            /\ slow_scripts[i].avg_time = None
            /\ slow_scripts[i].max_time = None
            /\ slow_scripts[i].total_time = None

----------------------------------------------------------------------------
(* Properties of the unit normalizers (lines 1256-1285) *)

\* C16 (as stated): without a unit, _normalize_time_seconds(v, None) = v for every
\* 0 < v < 1000 and _normalize_memory_mb(v, None) = v for every 0 < v < 1024*1024.
C16_IdentityBelowCanonicalLimits ==
    (calls = 1 /\ unit = None /\ FracLess(<<0, 1>>, value)) =>
        /\ (op = "_normalize_time_seconds" /\ FracLess(value, <<1000, 1>>))
              => returned = Some(value)
        /\ (op = "_normalize_memory_mb" /\ FracLess(value, <<1024 * 1024, 1>>))
              => returned = Some(value)

\* C16 (amended): without a unit, _normalize_time_seconds(v, None) = v for every
\* 0 < v < 1000 and _normalize_memory_mb(v, None) = v for every 0 < v < 5000.
C16_IdentityBelowHeuristicLimits ==
    (calls = 1 /\ unit = None /\ FracLess(<<0, 1>>, value)) =>
        /\ (op = "_normalize_time_seconds" /\ FracLess(value, <<1000, 1>>))
              => returned = Some(value)
        /\ (op = "_normalize_memory_mb" /\ FracLess(value, <<5000, 1>>))
              => returned = Some(value)

\* 4999.5 MB without a unit came back unchanged
C16_Witness ==
    /\ calls = 1
    /\ op = "_normalize_memory_mb"
    /\ unit = None
    /\ value = <<9999, 2>>
    /\ returned = Some(value)

\* the factor the reference applies for a unit: <<multiplier, divisor>>
ReferenceTimeFactor(u) ==
    CASE u \in {"ms", "msec", "MS"} -> <<1, 1000>>
      [] u \in {"s", "sec", "seconds"} -> <<1, 1>>

ReferenceMemoryFactor(u) ==
    CASE u \in {"b", "bytes"} -> <<1, 1024 * 1024>>
      [] u \in {"kb", "k", "KB"} -> <<1, 1024>>
      [] u \in {"mb", "m"} -> <<1, 1>>
      [] u \in {"gb", "g", "GB"} -> <<1024, 1>>

Scaled(v, f) == Some(FracDiv(FracMul(v, f[1]), f[2]))

\* C17: both normalizers agree with the reference: a value <= 0 gives None; a unit of
\* the table alone decides the factor whatever the magnitude; without a unit a time
\* above 1000 is divided by 1000 and otherwise unchanged, a memory value of at least
\* 1024*1024 is divided by 1024*1024, one in [5000, 1024*1024) by 1024, a smaller one
\* is unchanged.
C17_AgreesWithReference ==
    calls = 1 =>
        /\ FracLeq(value, <<0, 1>>) => returned = None
        /\ (FracLess(<<0, 1>>, value) /\ op = "_normalize_time_seconds") =>
              /\ (unit # None /\ unit[1] \in {"ms", "msec", "MS", "s", "sec", "seconds"})
                    => returned = Scaled(value, ReferenceTimeFactor(unit[1]))
              /\ (~ Truthy(unit) /\ FracLess(<<1000, 1>>, value))
                    => returned = Scaled(value, <<1, 1000>>)
              /\ (~ Truthy(unit) /\ FracLeq(value, <<1000, 1>>))
                    => returned = Some(value)
        /\ (FracLess(<<0, 1>>, value) /\ op = "_normalize_memory_mb") =>
              /\ (unit # None /\ unit[1] \in {"b", "bytes", "kb", "k", "KB", "mb", "m", "gb", "g", "GB"})
                    => returned = Scaled(value, ReferenceMemoryFactor(unit[1]))
              /\ (~ Truthy(unit) /\ FracLeq(<<1024 * 1024, 1>>, value))
                    => returned = Scaled(value, <<1, 1024 * 1024>>)
              /\ (~ Truthy(unit) /\ FracLeq(<<5000, 1>>, value)
                                 /\ FracLess(value, <<1024 * 1024, 1>>))
                    => returned = Scaled(value, <<1, 1024>>)
              /\ (~ Truthy(unit) /\ FracLess(value, <<5000, 1>>))
                    => returned = Some(value)

\* 1001 given in seconds stayed 1001, beyond the magnitude limit of the unit-less case
C17_Witness ==
    /\ calls = 1
    /\ op = "_normalize_time_seconds"
    /\ unit = Some("s")
    /\ value = <<1001, 1>>
    /\ returned = Some(<<1001, 1>>)

----------------------------------------------------------------------------
(* Properties of _percentile (lines 1501-1514) *)

\* the k-th smallest element of vals (k from 1), by counting
KthSmallest(vals, k) ==
    CHOOSE v \in {vals[i] : i \in 1..Len(vals)} :
        /\ Cardinality({i \in 1..Len(vals) : vals[i] < v}) < k
        /\ Cardinality({i \in 1..Len(vals) : vals[i] <= v}) >= k

\* the value at rank r = (p/100)*(n-1) of the ascending order, linearly interpolated
\* between the elements at floor(r) and floor(r)+1 (capped at n-1), times 100
InterpolatedTimes100(vals, p) ==
    LET n == Len(vals)
        lo == (p * (n - 1)) \div 100
        hundredths == p * (n - 1) - 100 * lo
        up == IF lo + 1 < n - 1 THEN lo + 1 ELSE n - 1
    IN  KthSmallest(vals, lo + 1) * (100 - hundredths) + KthSmallest(vals, up + 1) * hundredths

\* C18: _percentile returns None for an empty list and the element of a one-element
\* list; otherwise the linear interpolation at rank r = (p/100)*(n-1) in the samples
\* sorted ascending, whatever the order of the input, which it leaves unmodified;
\* [10,20,30,40,50] at p=50 gives 30 and [1,2,3,4,5] at p=95 gives 4.8.
C18_LinearInterpolationAtRank ==
    [][(calls = 0 /\ calls' = 1) =>
          /\ values' = values
          /\ values = <<>> => returned' = None
          /\ Len(values) = 1 => returned' = Some(<<values[1], 1>>)
          /\ Len(values) >= 2 =>
                /\ returned' # None
                /\ returned'[1][1] * 100 = InterpolatedTimes100(values, percentile) * returned'[1][2]
          /\ (values = <<10, 20, 30, 40, 50>> /\ percentile = 50) => returned' = Some(<<30, 1>>)
          /\ (values = <<1, 2, 3, 4, 5>> /\ percentile = 95) => returned' = Some(<<24, 5>>)
      ]_vars

\* the samples 1..5 given out of order gave 4.8 at p=95
C18_Witness ==
    /\ calls = 1
    /\ op = "_percentile"
    /\ values = <<5, 1, 4, 2, 3>>
    /\ percentile = 95
    /\ returned = Some(<<24, 5>>)

----------------------------------------------------------------------------
(* Properties of categorize_path (lines 848-864) *)

\* the count of key in a tally, 0 when the key is absent
CountOf(tally, key) == IF key \in DOMAIN tally THEN tally[key] ELSE 0

\* the category of a path: the first that applies of plugin, theme, core, other
CategoryOf(p) ==
    IF extract_plugin(p) # None THEN "plugins"
    ELSE IF DirName(p, "themes") # None THEN "themes"
    ELSE IF ContainsDir(p, "wp-includes") \/ ContainsDir(p, "wp-admin") THEN "core"
    ELSE "other"

\* C19: a call of categorize_path increments exactly one of the four source
\* categories, chosen with precedence plugin, theme, core, other; the plugin or theme
\* name tally is incremented together with its category and no other tally changes.
C19_ExactlyOneCategoryByPrecedence ==
    [][(calls = 0 /\ calls' = 1) =>
          LET c == CategoryOf(path)
              names == DOMAIN plugin_trace_hits' \cup DOMAIN theme_counts'
          IN  /\ \A k \in {"plugins", "themes", "core", "other"} :
                    CountOf(source_counts', k) = CountOf(source_counts, k) + (IF k = c THEN 1 ELSE 0)
              /\ DOMAIN source_counts' \subseteq {"plugins", "themes", "core", "other"}
              /\ \A n \in names :
                    /\ CountOf(plugin_trace_hits', n) = CountOf(plugin_trace_hits, n)
                          + (IF c = "plugins" /\ extract_plugin(path) = Some(n) THEN 1 ELSE 0)
                    /\ CountOf(theme_counts', n) = CountOf(theme_counts, n)
                          + (IF c = "themes" /\ DirName(path, "themes") = Some(n) THEN 1 ELSE 0)
              /\ c = "plugins" => extract_plugin(path)[1] \in DOMAIN plugin_trace_hits'
              /\ c = "themes" => DirName(path, "themes")[1] \in DOMAIN theme_counts'
              /\ DOMAIN plugin_trace_hits \subseteq DOMAIN plugin_trace_hits'
              /\ DOMAIN theme_counts \subseteq DOMAIN theme_counts'
      ]_vars

\* a path holding both a plugin and a theme directory was counted as a plugin hit, on
\* top of an earlier plugin hit
C19_Witness ==
    /\ calls = 1
    /\ op = "categorize_path"
    /\ extract_plugin(path) # None
    /\ DirName(path, "themes") # None
    /\ source_counts = [k \in {"plugins"} |-> 2]
    /\ theme_counts = <<>>

----------------------------------------------------------------------------
(* Properties of _extract_access_metrics (lines 1322-1499) *)

\* C20 (as stated): _extract_access_metrics returns the empty record if and only if
\* no strategy extracted any of script, duration, memory and cpu; a line that yields
\* a script but no duration, memory or cpu is returned populated and is kept by the
\* caller.
C20_EmptyIffNothingExtracted ==
    calls = 1 =>
        LET m == BuiltMetrics(line)
            nothing == /\ m.script = None
                       /\ m.request_time_sec = None
                       /\ m.memory_mb = None
                       /\ m.cpu_percent = None
        IN  /\ (returned = NoSignal) <=> nothing
            /\ m.script # None => (returned # NoSignal /\ parsed_entries = 1)

\* the bare numeric tokens of the line
BareNumerics(l) == {t.v : t \in {x \in Range(AllTokens(l)) : IsNum(x)}}

\* no token of the line carries a time (a memory) label or unit, so that a reported
\* duration (memory) can only come from a bare numeric
OnlyBareTime(l) == \A t \in Range(AllTokens(l)) : t.k # "time" /\ ~ IsTimeUnit(t)
OnlyBareMemory(l) == \A t \in Range(AllTokens(l)) : t.k # "mem" /\ ~ IsMemUnit(t)

\* C25: in the structural fallbacks a bare numeric is reported as the duration only
\* if it lies in (0,60], and as memory only if it is greater than 100 (hence never
\* the token claimed as the duration).
C25_BareNumericRanges ==
    (op = "_extract_access_metrics" /\ calls = 1 /\ returned # NoSignal) =>
        /\ (OnlyBareTime(line) /\ returned.request_time_sec # None) =>
              \E v \in BareNumerics(line) :
                 /\ InTimeRange(v)
                 /\ returned.request_time_sec = normalize_time_seconds(v, None)
        /\ (OnlyBareMemory(line) /\ returned.memory_mb # None) =>
              \E v \in BareNumerics(line) :
                 /\ FracLess(<<100, 1>>, v)
                 /\ returned.memory_mb = normalize_memory_mb(v, None)

\* C25, the part that holds: a bare numeric reported as the duration lies in (0,60]
C25_BareTimeInRange ==
    (op = "_extract_access_metrics" /\ calls = 1 /\ returned # NoSignal
        /\ OnlyBareTime(line) /\ returned.request_time_sec # None) =>
        \E v \in BareNumerics(line) :
           InTimeRange(v) /\ returned.request_time_sec = normalize_time_seconds(v, None)

\* C26: every populated record has a duration >= 0, a memory >= 0 and a cpu_percent
\* in [0,100], whenever the field is present.
C26_FieldsWithinRanges ==
    (op = "_extract_access_metrics" /\ calls = 1 /\ returned # NoSignal) =>
        /\ returned.request_time_sec # None => FracLeq(<<0, 1>>, returned.request_time_sec[1])
        /\ returned.memory_mb # None => FracLeq(<<0, 1>>, returned.memory_mb[1])
        /\ returned.cpu_percent # None =>
              /\ FracLeq(<<0, 1>>, returned.cpu_percent[1])
              /\ FracLeq(returned.cpu_percent[1], <<100, 1>>)

\* C26, the part that holds: duration and memory are positive when present
C26_TimeAndMemoryPositive ==
    (op = "_extract_access_metrics" /\ calls = 1 /\ returned # NoSignal) =>
        /\ returned.request_time_sec # None => FracLess(<<0, 1>>, returned.request_time_sec[1])
        /\ returned.memory_mb # None => FracLess(<<0, 1>>, returned.memory_mb[1])

----------------------------------------------------------------------------
(* Properties of the correlation with the access log (lines 1013-1041, 1182-1205) *)

\* the index has been built
IndexBuilt == op = "analyze_slow_logs" /\ pcMain \in {"match", "done"} /\ script_stats # <<>>

\* the slow-log scripts have been looked up in the index
Correlated == op = "analyze_slow_logs" /\ pcMain = "done" /\ script_stats # <<>>

\* script_data carries exactly the three access fields of summary
CarriesSummary(script_data, summary) ==
    /\ script_data.access_avg_time_sec = Some(summary.avg_time_sec)
    /\ script_data.access_max_time_sec = Some(summary.max_time_sec)
    /\ script_data.access_count = Some(summary.count)

\* the i-th access-log script shares no key variant with another indexed script
SharesNoKey(i) ==
    \A j \in 1..Len(script_stats) :
        j # i => script_keys(script_stats[i].script) \cap script_keys(script_stats[j].script) = {}

\* the queries of an indexed absolute path resolve to what its exact path resolves to
ResolvesLikeExactPath(i) ==
    LET indexed == script_stats[i].script
        exact == access_match(script_index, indexed)
    IN  /\ None \notin exact
        /\ access_match(script_index, OtherSlash(indexed)) = exact
        /\ access_match(script_index, Basename(indexed)) = exact
        /\ Cardinality(exact) = 1
        /\ Correlated =>
              \A n \in 1..Len(slow_scripts) :
                  normalize_script(slow_scripts[n].script)
                        \in {indexed, OtherSlash(indexed), Basename(indexed)}
                  => \E r \in exact : CarriesSummary(slow_scripts[n], r[1])

\* C13 (as stated): for an access-log script indexed under an absolute path, the query
\* without the leading slash and the query with only the basename both resolve, and
\* both return the summary the exact path returns.
C13_VariantsResolveLikeExactPath ==
    IndexBuilt =>
        \A i \in 1..Len(script_stats) :
            script_stats[i].script.abs => ResolvesLikeExactPath(i)

\* C13 (amended): for an access-log script indexed under an absolute path that shares
\* no key variant with another indexed script, the query without the leading slash
\* and the query with only the basename both resolve, and both return the summary of
\* that script, which the exact path returns too.
C13_VariantsResolveWithoutCollision ==
    IndexBuilt =>
        \A i \in 1..Len(script_stats) :
            (script_stats[i].script.abs /\ SharesNoKey(i)) =>
                /\ ResolvesLikeExactPath(i)
                /\ access_match(script_index, script_stats[i].script)
                      = {Some(Summary(script_stats[i]))}

\* the plugin script was indexed under its absolute path next to another script; the
\* slow log named it without the leading slash and by its basename, and both entries
\* carry its summary
C13_Witness ==
    /\ Correlated
    /\ Len(script_stats) = 2
    /\ script_stats[2].script = ScriptPath(TRUE, PluginScript, FALSE)
    /\ Len(slow_scripts) = 2
    /\ slow_scripts[1].script = ScriptPath(FALSE, PluginScript, FALSE)
    /\ slow_scripts[2].script = ScriptPath(FALSE, <<"bar.php">>, FALSE)
    /\ CarriesSummary(slow_scripts[1], Summary(script_stats[2]))
    /\ CarriesSummary(slow_scripts[2], Summary(script_stats[2]))

\* the first of the exact path, the path with the other leading slash and the
\* basename that is in the index
FirstVariantPresent(index, script_path) ==
    LET clean == normalize_script(script_path)
    IN  IF clean \in DOMAIN index THEN Some(index[clean])
        ELSE IF OtherSlash(clean) \in DOMAIN index THEN Some(index[OtherSlash(clean)])
        ELSE IF Basename(clean) \in DOMAIN index THEN Some(index[Basename(clean)])
        ELSE None

\* C14 (as stated): access_match tries the exact path, then the path with the leading
\* slash stripped or added, then the basename, and returns the summary of the first
\* one in the index; the exact-path summary wins over a different basename summary,
\* and the same index and query give the same result.
C14_FirstVariantInFixedOrder ==
    IndexBuilt =>
        \A n \in 1..Len(slow_scripts) :
            /\ access_match(script_index, slow_scripts[n].script)
                  = {FirstVariantPresent(script_index, slow_scripts[n].script)}
            /\ (Correlated /\ normalize_script(slow_scripts[n].script) \in DOMAIN script_index)
                  => CarriesSummary(slow_scripts[n],
                                    script_index[normalize_script(slow_scripts[n].script)])

\* C15: when no key variant of a slow-log script is in the index, no access field is
\* attached to it; the other fields and the rank of every script are unchanged, and
\* the scripts after it are still resolved.
C15_NoMatchIsSilent ==
    [][(pcMain = "match" /\ pcMain' = "done") =>
          /\ Len(slow_scripts') = Len(slow_scripts)
          /\ \A n \in 1..Len(slow_scripts) :
                LET found == script_stats # <<>>
                             /\ script_keys(slow_scripts[n].script) \cap DOMAIN script_index # {}
                IN  /\ [slow_scripts'[n] EXCEPT !.access_avg_time_sec = None,
                                                !.access_max_time_sec = None,
                                                !.access_count = None] = slow_scripts[n]
                    /\ ~ found => slow_scripts'[n] = slow_scripts[n]
                    /\ found => /\ slow_scripts'[n].access_count # None
                                /\ slow_scripts'[n].access_avg_time_sec # None
                                /\ slow_scripts'[n].access_max_time_sec # None
          /\ top_slow_scripts' = SubSeq(slow_scripts', 1, Len(top_slow_scripts))
      ]_vars

\* cron.php had no variant in the index and got no field; index.php, ranked after it,
\* was still resolved
C15_Witness ==
    /\ Correlated
    /\ Len(slow_scripts) = 2
    /\ slow_scripts[1].script = ScriptPath(FALSE, <<"cron.php">>, FALSE)
    /\ slow_scripts[1].access_count = None
    /\ slow_scripts[2].script = ScriptPath(TRUE, <<"index.php">>, TRUE)
    /\ slow_scripts[2].access_count # None

----------------------------------------------------------------------------
(* Properties of run_wp_command (lines 45-60) *)

\* the CLI timed out, raised, or exited with an error
WpFailed ==
    /\ wp_outcome # None
    /\ \/ wp_outcome[1].kind \in {"timeout", "exception"}
       \/ wp_outcome[1].returncode # 0

\* C22: whenever the external CLI times out or fails with an error, run_wp_command
\* returns the empty string to its caller.
C22_EmptyResultOnFailure ==
    (op = "run_wp_command" /\ calls = 1 /\ WpFailed) => returned = Some(<<>>)

\* C22, the part that holds: a timeout yields the empty string and a completed run
\* yields its stripped output
C22_EmptyResultOnTimeout ==
    (op = "run_wp_command" /\ calls = 1) =>
        /\ wp_outcome[1].kind = "timeout" => returned = Some(<<>>)
        /\ wp_outcome[1].kind = "completed" => returned = Some(strip(wp_outcome[1].text))

----------------------------------------------------------------------------
(* Termination of estimate_concurrent_users (lines 1889-1946) *)

\* the ladder levels are tested in order, each at most once
TestedInLadderOrder ==
    /\ Len(tested) <= Len(Ladder)
    /\ \A i \in 1..Len(tested) : tested[i] = Ladder[i]

\* the per-level duration has elapsed for a worker about to re-check it
DurationElapsed(w) == pc[w] = "loop" /\ now - start_time >= test_duration_per_level

\* C27: a worker that re-checks the elapsed time after the per-level duration has
\* passed begins no further request, the calling thread is past the join only when
\* every worker has stopped, estimate_concurrent_users terminates (so every worker
\* stops and every join completes), and it tests at most the seven ladder levels,
\* each at most once.
C27_LevelsAndSearchTerminate ==
    /\ [][\A w \in Threads : DurationElapsed(w) => pc'[w] \in {"loop", "exit"}]_vars
    /\ [](pcMain \in {"gate", "budget", "done"} => AllJoined)
    /\ []TestedInLadderOrder
    /\ <>(pcMain = "done")

\* C27 witness: the search has ended after all seven levels were tested
C27_Witness ==
    /\ op = "estimate_concurrent_users"
    /\ pcMain = "done"
    /\ Len(tested) = Len(Ladder)
    /\ broke = "exhausted"

----------------------------------------------------------------------------
(* Properties of the slow-log pass over the files                              *)

\* the lines read from file k so far, in the order read
FileLines(k) ==
    LET own == SelectSeq(lines_read, LAMBDA x : x[1] = k)
    IN  [i \in 1..Len(own) |-> own[i][2]]

\* the entries of file k handed to record_entry so far, in the order handed
FileRecorded(k) ==
    LET own == SelectSeq(recorded, LAMBDA x : x[1] = k)
    IN  [i \in 1..Len(own) |-> own[i][2]]

Headers(ls) == {i \in 1..Len(ls) : ls[i].date # None}

\* the number of headers at or before line i: 0 for the lines before the first header
GroupOf(ls, i) == Cardinality({h \in Headers(ls) : h <= i})

\* the entry made of the lines of group j: the timestamp of its header, the last script
\* and duration among its lines, the plugins of its trace paths
EntryOfGroup(ls, j) ==
    LET members == {i \in 1..Len(ls) : GroupOf(ls, i) = j}
        dated == {i \in members : ls[i].date # None}
        scripted == {i \in members : ls[i].script # None}
        timed == {i \in members : ls[i].duration # None}
        traced == {i \in members : ls[i].path # None /\ extract_plugin(ls[i].path[1]) # None}
    IN  [date |-> IF dated = {} THEN None ELSE ls[LastIn(dated)].date,
         script |-> IF scripted = {} THEN None ELSE ls[LastIn(scripted)].script,
         duration |-> IF timed = {} THEN None ELSE ls[LastIn(timed)].duration,
         plugins |-> {extract_plugin(ls[i].path[1])[1] : i \in traced}]

LinesWhere(P(_)) == Cardinality({i \in 1..Len(lines_read) : P(lines_read[i][2])})

ScriptInTree(l) == l.script # None /\ InWordPressTree(l.script[1])

PluginOf(p, name) == extract_plugin(p) = Some(name)

ThemeOf(p, name) ==
    extract_plugin(p) = None /\ ContainsThemes(p) /\ DirName(p, "themes") = Some(name)

FunctionKey(l) == IF l.func # None THEN l.func[1] ELSE "unknown"

\* the entries handed to record_entry that it admits
Admitted == {i \in 1..Len(recorded) : Qualifies(recorded[i][2])}

\* C28: the attribution tallies count lines, whatever becomes of the entry the lines
\* belong to: plugin_trace_hits, theme_counts and source_counts count the categorized
\* paths of the lines read, function_counts the trace functions, and
\* plugin_function_counts the trace lines of each plugin by function; the per-script
\* statistics and plugin_entry_counts count only the entries record_entry admits.
C28_TalliesCountLinesNotEntries ==
    op = "analyze_slow_logs" =>
        /\ \A p \in Plugins \cup DOMAIN plugin_trace_hits :
              CountOf(plugin_trace_hits, p) =
                  LinesWhere(LAMBDA l : ScriptInTree(l) /\ PluginOf(l.script[1], p))
                  + LinesWhere(LAMBDA l : l.path # None /\ PluginOf(l.path[1], p))
        /\ \A t \in {"astra"} \cup DOMAIN theme_counts :
              CountOf(theme_counts, t) =
                  LinesWhere(LAMBDA l : ScriptInTree(l) /\ ThemeOf(l.script[1], t))
                  + LinesWhere(LAMBDA l : l.path # None /\ ThemeOf(l.path[1], t))
        /\ CountOf(source_counts, "plugins") + CountOf(source_counts, "themes")
              + CountOf(source_counts, "core") + CountOf(source_counts, "other") =
                  LinesWhere(ScriptInTree) + LinesWhere(LAMBDA l : l.path # None)
        /\ \A fn \in {"query"} \cup DOMAIN function_counts :
              CountOf(function_counts, fn) = LinesWhere(LAMBDA l : l.func = Some(fn))
        /\ \A p \in Plugins \cup DOMAIN plugin_function_counts :
              \A fn \in {"query", "unknown"} :
                  CountOf(IF p \in DOMAIN plugin_function_counts
                          THEN plugin_function_counts[p] ELSE <<>>, fn) =
                      LinesWhere(LAMBDA l : /\ l.path # None
                                            /\ PluginOf(l.path[1], p)
                                            /\ FunctionKey(l) = fn)
        /\ \A p \in Plugins \cup DOMAIN plugin_entry_counts :
              CountOf(plugin_entry_counts, p) =
                  Cardinality({i \in Admitted : p \in recorded[i][2].plugins})
        /\ SumSeq([i \in 1..Len(slow_requests) |-> slow_requests[i].count]) =
              Cardinality(Admitted)

\* an entry with a plugin trace line and no script has been handed to record_entry:
\* the trace line is in the tallies, the entry is in no statistics
C28_Witness ==
    /\ op = "analyze_slow_logs"
    /\ \E i \in 1..Len(recorded) :
          /\ ~ Qualifies(recorded[i][2])
          /\ "woocommerce" \in recorded[i][2].plugins
    /\ CountOf(plugin_trace_hits, "woocommerce") = 1
    /\ CountOf(function_counts, "query") = 1
    /\ plugin_entry_counts = <<>>
    /\ slow_requests = <<>>

\* C29: in every state of the slow-log pass and for every plugin p,
\* plugin_entry_counts[p] <= plugin_trace_hits[p].
C29_EntryCountsWithinTraceHits ==
    op = "analyze_slow_logs" =>
        \A p \in DOMAIN plugin_entry_counts :
            /\ p \in DOMAIN plugin_trace_hits
            /\ plugin_entry_counts[p] <= plugin_trace_hits[p]

\* one recorded entry had two trace lines of the same plugin
C29_Witness ==
    /\ op = "analyze_slow_logs"
    /\ CountOf(plugin_entry_counts, "woocommerce") = 1
    /\ CountOf(plugin_trace_hits, "woocommerce") = 2

----------------------------------------------------------------------------
(* Failures of a log file and the file handles                                 *)

\* the statistics and tallies the three passes accumulate
Accumulated ==
    <<slow_requests, plugin_entry_counts, source_counts, plugin_trace_hits, theme_counts,
      function_counts, plugin_function_counts, script_stats, parsed_entries, resVars>>

\* C21: when opening or reading one log file fails during a slow-log or access-log
\* pass, a warning is printed for that file, the statistics and tallies accumulated
\* so far are kept, the pass goes on with the next file, and a pass that has returned
\* has gone through every file.
C21_FailedFileSkippedWithWarning ==
    /\ [][(op \in PassOps /\ raised' # raised) =>
            /\ warnings' = Append(warnings, file_idx)
            /\ Accumulated' = Accumulated
            /\ pcMain' = "next_file"]_vars
    /\ [](op \in PassOps /\ pcMain = "done" => file_idx = Len(LogFiles))

\* the same without the warning: a failed file costs nothing accumulated and does not
\* end the pass
C21_FailedFileKeepsStatistics ==
    /\ [][(op \in PassOps /\ raised' # raised) =>
            /\ Accumulated' = Accumulated
            /\ pcMain' = "next_file"]_vars
    /\ [](op \in PassOps /\ pcMain = "done" => file_idx = Len(LogFiles))

\* C24: every log file opened by one of the three passes is closed on every exit
\* path of its processing: outside the reading of a file, and after the pass has
\* returned, no handle is open.
C24_ClosedOnEveryExitPath ==
    (op \in PassOps /\ pcMain # "read") => open_files = {}

\* a file read to its end without an exception is closed when its processing ends
C24_ClosedAfterFullRead ==
    [][(op \in PassOps /\ pcMain = "read" /\ pcMain' = "next_file" /\ raised' = raised)
          => file_idx \notin open_files']_vars

----------------------------------------------------------------------------
(* The per-script times of the slow-log fold in floating point                 *)

\* n times x, exactly
RECURSIVE TimesExactly(_, _)
TimesExactly(x, n) ==
    IF n = 0 THEN FloatZero ELSE ExactSum(x, TimesExactly(x, n - 1))

\* x * (1 + n * 2^-52), exactly
WithRoundingAllowance(x, n) ==
    ExactSum(x, [bits |-> TimesExactly(x, n).bits, exp |-> TimesExactly(x, n).exp - 52])

InTimes == op = "analyze_slow_logs" /\ pcMain = "times"

\* C30: in every state of the slow-log fold and for every script: when
\* timed_count > 0, max_time <= total_time and total_time / timed_count <= max_time;
\* when timed_count = 0, total_time = 0 and max_time = 0.
C30_AverageWithinMaximum ==
    InTimes =>
        \A i \in 1..Len(slow_requests) :
            /\ slow_requests[i].timed_count > 0 =>
                  /\ FloatLeq(slow_requests[i].max_time, slow_requests[i].total_time)
                  /\ FloatLeq(avg_time(slow_requests[i]), slow_requests[i].max_time)
            /\ slow_requests[i].timed_count = 0 =>
                  /\ slow_requests[i].total_time = FloatZero
                  /\ slow_requests[i].max_time = FloatZero

\* C30 as the floating-point sums allow it: in every state of the slow-log fold and
\* for every script: when timed_count > 0, max_time <= total_time and
\* total_time / timed_count <= max_time * (1 + timed_count * 2^-52); when
\* timed_count = 0, total_time = 0 and max_time = 0.
C30_AverageWithinMaximumUpToRounding ==
    InTimes =>
        \A i \in 1..Len(slow_requests) :
            /\ slow_requests[i].timed_count > 0 =>
                  /\ FloatLeq(slow_requests[i].max_time, slow_requests[i].total_time)
                  /\ FloatLeq(avg_time(slow_requests[i]),
                              WithRoundingAllowance(slow_requests[i].max_time,
                                                    slow_requests[i].timed_count))
            /\ slow_requests[i].timed_count = 0 =>
                  /\ slow_requests[i].total_time = FloatZero
                  /\ slow_requests[i].max_time = FloatZero

\* a script with three timed entries whose average, as computed, is above its maximum
C30_Witness ==
    /\ InTimes
    /\ \E i \in 1..Len(slow_requests) :
          /\ slow_requests[i].timed_count = 3
          /\ ~ FloatLeq(avg_time(slow_requests[i]), slow_requests[i].max_time)

====
